---- MODULE Spec2Model ----
(***************************************************************************)
(* State-machine model of the LED/touch controller firmware: the outgoing  *)
(* event queue (EventQueue.cpp), the command dispatcher                    *)
(* (CommandController.cpp), the touch debouncer (TouchController.cpp), the *)
(* LED animator (LedController.cpp) and the cooperative loop (main.cpp).   *)
(*                                                                         *)
(* Conventions                                                             *)
(*  - a C string is a tuple of one-character strings, so that strncpy's    *)
(*    truncation is computed; a single char is a string, "" being NUL;     *)
(*  - millis() is the variable now;                                        *)
(*  - every handler is one action; the events it hands to                  *)
(*    EventQueue::enqueue, in call order, are recorded in offered, the     *)
(*    lines it prints on the transport in serialOut, and the handler and   *)
(*    its input in lastOp.  These three describe the last step only;       *)
(*  - an action binds a handler's result once, as \E r \in {handler(...)}, *)
(*    and writes its parts to the variables.                               *)
(*                                                                         *)
(* Specifications                                                          *)
(*  SpecEQ        the event queue under enqueue and flush calls            *)
(*  SpecAnim      loop() with SUCCESS and HIDE commands for one position   *)
(*  SpecDispatch  loop() with RECALIBRATE_ALL, SCAN and PING, with and     *)
(*                without a touch controller                               *)
(*  SpecBusy      loop() with the eight command slots being filled         *)
(*  SpecTouch     loop() with a finger on a sensor and EXPECT commands     *)
(*  SpecParse     loop() with the host's lines parsed, well formed or not  *)
(*  SpecLed       loop() with SHOW, HIDE, SUCCESS, BLINK for one position  *)
(*  SpecSerial    loop() with the host's bytes through the ring buffer     *)
(*  SpecCelebrate loop() with SEQUENCE_COMPLETED and SUCCESS               *)
(*  FairDispatch  SpecDispatch with loop() running for ever                *)
(*  SpecRearm     loop() with EXPECT commands following one another        *)
(*  SpecInactive  loop() with a finger on a sensor that may have failed its *)
(*                initialisation, EXPECT commands for it and SCAN          *)
(*  SpecExpand    loop() with SUCCESS, the commands that end an expansion  *)
(*                and SEQUENCE_COMPLETED                                   *)
(*  SpecInstant   loop() with the instant commands for one position, with  *)
(*                and without a touch controller                           *)
(*  SpecFraming   loop() with the host's lines ending in runs of CR and LF *)
(*  SpecDrain     loop() with RECALIBRATE_ALL or SCAN and a burst of PING  *)
(*  FairDrain     SpecDrain with loop() running for ever                   *)
(*  SpecLost      loop() with a long-running command and a burst of PING   *)
(*                that fills the event queue                               *)
(*  SpecUnheard   loop() with a finger on a sensor, an EXPECT command and a *)
(*                burst of PING that fills the event queue                 *)
(*  SpecBlink     loop() with BLINK, STOP_BLINK and the other LED commands *)
(*                for one position                                         *)
(***************************************************************************)
EXTENDS Integers, Sequences, FiniteSets, TLC

(***************************************************************************)
(* Program constants                                                       *)
(***************************************************************************)
COMMAND_QUEUE_SIZE == 8
EVENT_QUEUE_SIZE == 16
TOUCH_POLL_INTERVAL_MS == 10
DEBOUNCE_MS == 30
NUM_TOUCH_SENSORS == 25
NUM_POSITIONS == 25
SUCCESS_EXPANSION_RADIUS == 5
ANIMATION_STEP_MS == 80
SEQUENCE_ANIM_TOTAL_STEPS == 8
STEP_DURATION == 150
BLINK_INTERVAL_MS == 150
SENSORS_PER_TICK == 5
\* sizeof(Event::action) and sizeof(Event::extra)
ACTION_SIZE == 12
EXTRA_SIZE == 52
\* sizeof(sensorList) in tickCommand
SENSOR_LIST_SIZE == 52
\* the argument of eventQueue.flush in loop()
LOOP_FLUSH == 3
MAX_LINE_LEN == 64
\* sizeof(m_rxBuffer)
RX_BUFFER_SIZE == MAX_LINE_LEN * 2
NUM_LEDS_STRIP1 == 190
NUM_LEDS_STRIP2 == 190

\* The "no id" sentinel.  Its definition (the end of Config.h) is not part of
\* the available source; the code uses it as one value of uint32_t, stored in
\* and compared with uint32_t fields.  -1 stands for that value.
NO_COMMAND_ID == -1

(***************************************************************************)
(* Bounds of the model                                                     *)
(***************************************************************************)
\* SpecEQ: number of enqueue calls made in a run
MaxEnq == 18
\* SpecEQ: largest argument given to flush
MaxFlush == 4

\* SpecDispatch: lines the host sends, milliseconds after setup
MaxLinesDispatch == 2
MaxTimeDispatch == 10

\* SpecBusy: lines the host sends, milliseconds after setup
MaxLinesBusy == 9
MaxTimeBusy == 160

\* SpecTouch: lines the host sends, milliseconds after setup
MaxLinesTouch == 2
MaxTimeTouch == 110

\* SpecAnim: lines the host sends, milliseconds after setup
MaxLinesAnim == 2
MaxTimeAnim == 440

\* SpecLed: lines the host sends, milliseconds after setup
MaxLinesLed == 3
MaxTimeLed == 160

\* SpecCelebrate: lines the host sends, milliseconds after setup
\* SpecRearm: lines the host sends, milliseconds after setup
MaxLinesRearm == 3
MaxTimeRearm == 60

\* SpecInactive: lines the host sends, milliseconds after setup
MaxLinesInactive == 2
MaxTimeInactive == 50

\* SpecExpand: lines the host sends, milliseconds after setup
MaxLinesExpand == 2
MaxTimeExpand == 1350

\* SpecInstant: lines the host sends, milliseconds after setup
MaxLinesInstant == 2
MaxTimeInstant == 150

MaxLinesCelebrate == 2
MaxTimeCelebrate == 1350

\* SpecSerial: lines the host sends, bytes of a line before its terminator
MaxLinesSerial == 2
MaxLenSerial == 140

\* SpecBlink: lines the host sends, milliseconds after setup
MaxLinesBlink == 2
MaxTimeBlink == 300

\* SpecDrain: lines the host sends
MaxLinesDrain == 17

\* SpecLost: lines the host sends, milliseconds after setup
MaxLinesLost == 17
MaxTimeLost == 750

\* SpecUnheard: lines the host sends, milliseconds after setup
MaxLinesUnheard == 17
MaxTimeUnheard == 150

\* SpecFraming: lines the host sends, bytes of a line before its terminator
MaxLinesFraming == 2
MaxLenFraming == 190

\* SpecParse: lines the host sends, tokens after the action word
MaxLinesParse == 2
MaxArgsParse == 2

(***************************************************************************)
(* Text                                                                    *)
(***************************************************************************)
Letters == <<"A","B","C","D","E","F","G","H","I","J","K","L","M",
             "N","O","P","Q","R","S","T","U","V","W","X","Y">>

Min(a, b) == IF a < b THEN a ELSE b

\* strncpy(dst, src, size - 1); dst[size - 1] = '\0'
strncpyz(src, size) == SubSeq(src, 1, Min(Len(src), size - 1))

S_SHOW == <<"S","H","O","W">>
S_HIDE == <<"H","I","D","E">>
S_SUCCESS == <<"S","U","C","C","E","S","S">>
S_BLINK == <<"B","L","I","N","K">>
S_STOP_BLINK == <<"S","T","O","P","_","B","L","I","N","K">>
S_EXPECT_DOWN == <<"E","X","P","E","C","T","_","D","O","W","N">>
S_EXPECT_UP == <<"E","X","P","E","C","T","_","U","P">>
S_RECALIBRATE == <<"R","E","C","A","L","I","B","R","A","T","E">>
S_RECALIBRATE_ALL == S_RECALIBRATE \o <<"_","A","L","L">>
S_SCAN == <<"S","C","A","N">>
S_SEQUENCE_COMPLETED ==
    <<"S","E","Q","U","E","N","C","E","_","C","O","M","P","L","E","T","E","D">>
S_INFO == <<"I","N","F","O">>
S_PING == <<"P","I","N","G">>
S_UNKNOWN == <<"U","N","K","N","O","W","N">>

S_busy == <<"b","u","s","y">>
S_bad_format == <<"b","a","d","_","f","o","r","m","a","t">>
S_unknown_position ==
    <<"u","n","k","n","o","w","n","_","p","o","s","i","t","i","o","n">>
S_line_too_long == <<"l","i","n","e","_","t","o","o","_","l","o","n","g">>
S_PI == <<"P","I",">">>
S_no_touch_controller ==
    <<"n","o","_","t","o","u","c","h","_","c","o","n","t","r","o","l","l","e","r">>
S_command_failed ==
    <<"c","o","m","m","a","n","d","_","f","a","i","l","e","d">>
S_unknown_action ==
    <<"u","n","k","n","o","w","n","_","a","c","t","i","o","n">>

UpperCase == <<"A","B","C","D","E","F","G","H","I","J","K","L","M",
               "N","O","P","Q","R","S","T","U","V","W","X","Y","Z">>
LowerCase == <<"a","b","c","d","e","f","g","h","i","j","k","l","m",
               "n","o","p","q","r","s","t","u","v","w","x","y","z">>
DigitChars == <<"0","1","2","3","4","5","6","7","8","9">>

\* (c >= 'a' && c <= 'z') ? (c - 32) : c
toUpper(c) ==
    IF \E k \in 1..26 : LowerCase[k] = c
    THEN UpperCase[CHOOSE k \in 1..26 : LowerCase[k] = c]
    ELSE c

\* c >= '0' && c <= '9', and c - '0'
isDigit(c) == \E k \in 1..10 : DigitChars[k] = c

digitValue(c) == (CHOOSE k \in 1..10 : DigitChars[k] = c) - 1

\* c == '\n' || c == '\r'
isTerminator(c) == c \in {"\n", "\r"}

VARIABLES
    now,                    \* millis()
    pc,                     \* position in loop()
    m_queue, m_head, m_tail, m_count,               \* EventQueue
    m_commandQueue, m_touchController,              \* CommandController
    m_rxBuffer, m_rxHead, m_rxTail,                 \* its ring buffer
    m_lineBuffer, m_lineIndex, m_lineOverflow,      \* its line buffer
    m_positions, m_sequenceAnimActive, m_sequenceAnimStep,
    m_sequenceAnimLastTime, m_needsUpdate,          \* LedController
    m_strip1, m_strip2,                             \* its pixel buffers
    m_sensors, m_expectDown, m_expectUp, m_lastPollTime,  \* TouchController
    offered, serialOut, lastOp,                     \* the last step
    calWrites,              \* sensors whose calibration register the last step wrote
    lines,                  \* the command lines the host has sent so far
    sampleVal, sampleSince, sampleBase, sampleEvents,   \* the raw readings, see TouchTick
    pendingDown, pendingUp, \* the EXPECT commands not yet answered, see ExecuteCommand
    hostLine, hostSent, hostEvents,     \* the line the host is sending, see PollSerial
    enqCalls, enqLog, outLog    \* SpecEQ: enqueue calls made, events accepted, lines written

eqVars == <<m_queue, m_head, m_tail, m_count>>
cmdVars == <<m_commandQueue, m_touchController>>
rxVars == <<m_rxBuffer, m_rxHead, m_rxTail>>
lineVars == <<m_lineBuffer, m_lineIndex, m_lineOverflow>>
ledVars == <<m_positions, m_sequenceAnimActive, m_sequenceAnimStep,
             m_sequenceAnimLastTime, m_needsUpdate, m_strip1, m_strip2>>
touchVars == <<m_sensors, m_expectDown, m_expectUp, m_lastPollTime>>
stepVars == <<offered, serialOut, lastOp, calWrites>>
logVars == <<enqCalls, enqLog, outLog>>
sampleVars == <<sampleVal, sampleSince, sampleBase, sampleEvents>>
pendingVars == <<pendingDown, pendingUp>>
hostVars == <<hostLine, hostSent, hostEvents>>
vars == <<now, pc, lines, eqVars, cmdVars, rxVars, lineVars, ledVars, touchVars,
          stepVars, logVars, sampleVars, pendingVars, hostVars>>

(***************************************************************************)
(* EventQueue                                                              *)
(***************************************************************************)
\* struct Event as the constructor leaves a slot; begin() clears valid
NoEvent == [type |-> "ACK", action |-> << >>, position |-> "",
            commandId |-> 0, extra |-> << >>, valid |-> FALSE]

\* the queue's fields as one value, for the handlers that enqueue several times
EQ == [queue |-> m_queue, head |-> m_head, tail |-> m_tail, count |-> m_count]

isFull_gt(q) == q.count > EVENT_QUEUE_SIZE

isFull(q) == q.count >= EVENT_QUEUE_SIZE

isEmpty(q) == q.count = 0

enqueue_skip(q, event) ==
    IF isFull(q) THEN q
    ELSE [q EXCEPT !.queue = [q.queue EXCEPT ![q.head] = event],
                   !.head = (q.head + 2) % EVENT_QUEUE_SIZE,
                   !.count = q.count + 1]

\* EventQueue::enqueue: the queue after the call
enqueue(q, event) ==
    IF isFull(q) THEN q
    ELSE [q EXCEPT !.queue = [q.queue EXCEPT ![q.head] = event],
                   !.head = (q.head + 1) % EVENT_QUEUE_SIZE,
                   !.count = q.count + 1]

\* EventQueue::enqueue: its return value
enqueueResult(q, event) == ~isFull(q)

\* a handler's enqueue calls, made in order
RECURSIVE enqueueAll(_, _)
enqueueAll(q, events) ==
    IF events = << >> THEN q
    ELSE enqueueAll(enqueue(q, Head(events)), Tail(events))

\* the events among a handler's calls that enqueue accepted
RECURSIVE acceptedOf(_, _)
acceptedOf(q, events) ==
    IF events = << >> THEN << >>
    ELSE (IF enqueueResult(q, Head(events)) THEN <<Head(events)>> ELSE << >>)
         \o acceptedOf(enqueue(q, Head(events)), Tail(events))

queueAck(action, position, commandId) ==
    [type |-> "ACK", action |-> strncpyz(action, ACTION_SIZE), position |-> position,
     commandId |-> commandId, extra |-> << >>, valid |-> TRUE]

queueDone(action, position, commandId) ==
    [type |-> "DONE", action |-> strncpyz(action, ACTION_SIZE), position |-> position,
     commandId |-> commandId, extra |-> << >>, valid |-> TRUE]

queueError(reason, commandId) ==
    [type |-> "ERR", action |-> << >>, position |-> "",
     commandId |-> commandId, extra |-> strncpyz(reason, EXTRA_SIZE), valid |-> TRUE]

queueTouchDown(position) ==
    [type |-> "TOUCH_DOWN", action |-> << >>, position |-> position,
     commandId |-> NO_COMMAND_ID, extra |-> << >>, valid |-> TRUE]

queueTouchUp(position) ==
    [type |-> "TOUCH_UP", action |-> << >>, position |-> position,
     commandId |-> NO_COMMAND_ID, extra |-> << >>, valid |-> TRUE]

queueScanned(sensorList, commandId) ==
    [type |-> "SCANNED", action |-> << >>, position |-> "",
     commandId |-> commandId, extra |-> strncpyz(sensorList, EXTRA_SIZE), valid |-> TRUE]

queueTouchedDown(position, commandId) ==
    [type |-> "TOUCHED_DOWN", action |-> << >>, position |-> position,
     commandId |-> commandId, extra |-> << >>, valid |-> TRUE]

queueTouchedUp(position, commandId) ==
    [type |-> "TOUCHED_UP", action |-> << >>, position |-> position,
     commandId |-> commandId, extra |-> << >>, valid |-> TRUE]

queueRecalibrated(position, commandId) ==
    [type |-> "RECALIBRATED", action |-> << >>, position |-> position,
     commandId |-> commandId, extra |-> << >>, valid |-> TRUE]

queueInfo(commandId) ==
    [type |-> "INFO", action |-> << >>, position |-> "",
     commandId |-> commandId, extra |-> << >>, valid |-> TRUE]

\* EventQueue::sendEvent: the line written.  A field that is not printed is
\* absent from the line: position "" and hasId FALSE.
sendEvent(event) ==
    [type |-> event.type,
     action |-> event.action,
     position |-> event.position,
     hasId |-> event.commandId # NO_COMMAND_ID,
     id |-> IF event.commandId # NO_COMMAND_ID THEN event.commandId ELSE 0,
     extra |-> event.extra]

flushBound_all(sent, maxEvents) == TRUE

\* the loop condition's bound in EventQueue::flush
flushBound(sent, maxEvents) == sent < maxEvents

flushNext_lifo(q) == (q.head + EVENT_QUEUE_SIZE - 1) % EVENT_QUEUE_SIZE

\* the slot EventQueue::flush reads next
flushNext(q) == q.tail

flushLoop_stuck(q, out, sent, maxEvents) == [q |-> q, out |-> out]

\* EventQueue::flush: the loop, from a queue q with sent events already popped
\* and the lines out already written
RECURSIVE flushLoop(_, _, _, _)
flushLoop(q, out, sent, maxEvents) ==
    IF ~isEmpty(q) /\ flushBound(sent, maxEvents)
    THEN LET at == flushNext(q)
             event == q.queue[at]
         IN  flushLoop([q EXCEPT !.queue = IF event.valid
                                            THEN [q.queue EXCEPT ![at].valid = FALSE]
                                            ELSE q.queue,
                                 !.tail = (q.tail + 1) % EVENT_QUEUE_SIZE,
                                 !.count = q.count - 1],
                       IF event.valid THEN Append(out, sendEvent(event)) ELSE out,
                       sent + 1, maxEvents)
    ELSE [q |-> q, out |-> out]

flush(q, maxEvents) == flushLoop(q, << >>, 0, maxEvents)

SetEQ(q) ==
    /\ m_queue' = q.queue
    /\ m_head' = q.head
    /\ m_tail' = q.tail
    /\ m_count' = q.count

(***************************************************************************)
(* LedController                                                           *)
(* L is the controller's state as one value:                               *)
(*   [positions, seqActive, seqStep, seqLast, needsUpdate]                 *)
(***************************************************************************)
LED == [positions |-> m_positions, seqActive |-> m_sequenceAnimActive,
        seqStep |-> m_sequenceAnimStep, seqLast |-> m_sequenceAnimLastTime,
        needsUpdate |-> m_needsUpdate, strip1 |-> m_strip1, strip2 |-> m_strip2]

SetLED(L) ==
    /\ m_positions' = L.positions
    /\ m_sequenceAnimActive' = L.seqActive
    /\ m_sequenceAnimStep' = L.seqStep
    /\ m_sequenceAnimLastTime' = L.seqLast
    /\ m_needsUpdate' = L.needsUpdate
    /\ m_strip1' = L.strip1
    /\ m_strip2' = L.strip2

\* the colors of Config.h, as (r, g, b)
COLOR_SHOW == <<0, 0, 255>>
COLOR_SUCCESS == <<0, 255, 0>>
COLOR_BLINK == <<255, 100, 0>>
COLOR_OFF == <<0, 0, 0>>

\* LED_MAPPINGS, position 0 first
LED_MAPPINGS ==
    <<[strip |-> "STRIP1", index |-> 153], [strip |-> "STRIP1", index |-> 165],
      [strip |-> "STRIP1", index |-> 177], [strip |-> "STRIP2", index |-> 177],
      [strip |-> "STRIP2", index |-> 165], [strip |-> "STRIP2", index |-> 153],
      [strip |-> "STRIP1", index |-> 130], [strip |-> "STRIP1", index |-> 118],
      [strip |-> "STRIP1", index |-> 105], [strip |-> "STRIP1", index |-> 92],
      [strip |-> "STRIP2", index |-> 105], [strip |-> "STRIP2", index |-> 118],
      [strip |-> "STRIP2", index |-> 130], [strip |-> "STRIP1", index |-> 55],
      [strip |-> "STRIP1", index |-> 67], [strip |-> "STRIP1", index |-> 79],
      [strip |-> "STRIP2", index |-> 79], [strip |-> "STRIP2", index |-> 67],
      [strip |-> "STRIP2", index |-> 55], [strip |-> "STRIP1", index |-> 34],
      [strip |-> "STRIP1", index |-> 22], [strip |-> "STRIP1", index |-> 10],
      [strip |-> "STRIP2", index |-> 10], [strip |-> "STRIP2", index |-> 22],
      [strip |-> "STRIP2", index |-> 34]>>

\* LedController::getMapping, for position < NUM_POSITIONS
getMapping(position) == LED_MAPPINGS[position + 1]

getStripLength(strip) ==
    CASE strip = "STRIP1" -> NUM_LEDS_STRIP1
      [] strip = "STRIP2" -> NUM_LEDS_STRIP2
      [] OTHER -> 0

\* A pixel buffer is the function from the indexes of its pixels to their
\* colors.
getPixelColor(pixels, index) == pixels[index]

setPixelColor(pixels, index, color) == [pixels EXCEPT ![index] = color]

\* every pixel of a buffer set to one color
fillPixels(length, color) == [k \in 0..(length - 1) |-> color]

\* LedController::setLed
setLed(L, strip, index, color) ==
    IF index < 0 \/ index >= getStripLength(strip) THEN L
    ELSE IF strip = "STRIP1"
         THEN [L EXCEPT !.strip1 = setPixelColor(L.strip1, index, color)]
         ELSE [L EXCEPT !.strip2 = setPixelColor(L.strip2, index, color)]

\* the pixels clearExpandedRegion and renderPosition reach for a mapping
regionOf(mapping) ==
    {idx \in (mapping.index - SUCCESS_EXPANSION_RADIUS)
                ..(mapping.index + SUCCESS_EXPANSION_RADIUS) :
        idx >= 0 /\ idx < getStripLength(mapping.strip)}

\* LedController::clearExpandedRegion: the loop from offset
RECURSIVE clearFrom(_, _, _)
clearFrom(L, mapping, offset) ==
    IF offset > SUCCESS_EXPANSION_RADIUS THEN L
    ELSE LET idx == mapping.index + offset
         IN  IF idx >= 0 /\ idx < getStripLength(mapping.strip)
             THEN clearFrom(setLed(L, mapping.strip, idx, COLOR_OFF),
                            mapping, offset + 1)
             ELSE clearFrom(L, mapping, offset + 1)

clearExpandedRegion_center(L, mapping) ==
    setLed(L, mapping.strip, mapping.index, COLOR_OFF)

\* LedController::clearExpandedRegion
clearExpandedRegion(L, mapping) == clearFrom(L, mapping, -SUCCESS_EXPANSION_RADIUS)

clearIfExpanded_never(L, position) == L

\* show, blink and success: "if currently expanded/animating, clear that region"
clearIfExpanded(L, position) ==
    IF L.positions[position].state \in {"ANIMATING", "EXPANDED"}
    THEN clearExpandedRegion(L, getMapping(position))
    ELSE L

\* LedController::show
show(L, position) ==
    IF position >= NUM_POSITIONS THEN [L |-> L, ok |-> FALSE]
    ELSE LET mapping == getMapping(position)
             L1 == clearIfExpanded(L, position)
             L2 == [L1 EXCEPT !.positions[position].state = "SHOWN",
                              !.positions[position].animationStep = 0]
         IN  [L |-> [setLed(L2, mapping.strip, mapping.index, COLOR_SHOW)
                        EXCEPT !.needsUpdate = TRUE],
              ok |-> TRUE]

hide_strict(L, position) ==
    [L |-> L, ok |-> position < NUM_POSITIONS /\ L.positions[position].state # "OFF"]

\* LedController::hide
hide(L, position) ==
    IF position >= NUM_POSITIONS THEN [L |-> L, ok |-> FALSE]
    ELSE LET L1 == clearExpandedRegion(L, getMapping(position))
         IN  [L |-> [L1 EXCEPT !.positions[position].state = "OFF",
                               !.positions[position].animationStep = 0,
                               !.positions[position].blinkOn = FALSE,
                               !.needsUpdate = TRUE],
              ok |-> TRUE]

\* LedController::blink
blink(L, position, t) ==
    IF position >= NUM_POSITIONS THEN [L |-> L, ok |-> FALSE]
    ELSE LET mapping == getMapping(position)
             L1 == clearIfExpanded(L, position)
             L2 == [L1 EXCEPT !.positions[position].state = "BLINKING",
                              !.positions[position].animationStep = 0,
                              !.positions[position].lastAnimationTime = t,
                              !.positions[position].blinkOn = TRUE]
         IN  [L |-> [setLed(L2, mapping.strip, mapping.index, COLOR_BLINK)
                        EXCEPT !.needsUpdate = TRUE],
              ok |-> TRUE]

stopBlink_always(L, position) ==
    IF position >= NUM_POSITIONS THEN [L |-> L, ok |-> FALSE]
    ELSE LET mapping == getMapping(position)
             L1 == setLed(L, mapping.strip, mapping.index, COLOR_OFF)
         IN  [L |-> [L1 EXCEPT !.positions[position].state = "OFF",
                               !.positions[position].animationStep = 0,
                               !.positions[position].blinkOn = FALSE,
                               !.needsUpdate = TRUE],
              ok |-> TRUE]

\* LedController::stopBlink
stopBlink(L, position) ==
    IF position >= NUM_POSITIONS THEN [L |-> L, ok |-> FALSE]
    ELSE IF L.positions[position].state # "BLINKING" THEN [L |-> L, ok |-> TRUE]
    ELSE LET mapping == getMapping(position)
             L1 == setLed(L, mapping.strip, mapping.index, COLOR_OFF)
         IN  [L |-> [L1 EXCEPT !.positions[position].state = "OFF",
                               !.positions[position].animationStep = 0,
                               !.positions[position].blinkOn = FALSE,
                               !.needsUpdate = TRUE],
              ok |-> TRUE]

\* LedController::success
success(L, position, t) ==
    IF position >= NUM_POSITIONS THEN [L |-> L, ok |-> FALSE]
    ELSE LET mapping == getMapping(position)
             L1 == IF L.positions[position].state \in {"ANIMATING", "EXPANDED"}
                   THEN clearExpandedRegion(L, mapping)
                   ELSE IF L.positions[position].state = "SHOWN"
                        THEN setLed(L, mapping.strip, mapping.index, COLOR_OFF)
                        ELSE L
             L2 == [L1 EXCEPT !.positions[position].state = "ANIMATING",
                              !.positions[position].animationStep = 0,
                              !.positions[position].lastAnimationTime = t]
         IN  [L |-> [setLed(L2, mapping.strip, mapping.index, COLOR_SUCCESS)
                        EXCEPT !.needsUpdate = TRUE],
              ok |-> TRUE]

\* LedController::isAnimationComplete
isAnimationComplete(L, position) ==
    IF position >= NUM_POSITIONS THEN TRUE
    ELSE L.positions[position].state # "ANIMATING"

\* LedController::renderPosition, ANIMATING and EXPANDED: the loop from radius r
RECURSIVE renderExpanded(_, _, _, _)
renderExpanded(L, mapping, r, radius) ==
    IF r > radius THEN L
    ELSE LET left == IF mapping.index - r >= 0
                     THEN setLed(L, mapping.strip, mapping.index - r, COLOR_SUCCESS)
                     ELSE L
             right == IF mapping.index + r < getStripLength(mapping.strip)
                      THEN setLed(left, mapping.strip, mapping.index + r, COLOR_SUCCESS)
                      ELSE left
         IN  renderExpanded(right, mapping, r + 1, radius)

\* LedController::renderPosition
renderPosition(L, position) ==
    IF position >= NUM_POSITIONS THEN L
    ELSE LET mapping == getMapping(position)
             data == L.positions[position]
         IN  CASE data.state = "OFF" -> L
               [] data.state = "SHOWN" ->
                    setLed(L, mapping.strip, mapping.index, COLOR_SHOW)
               [] data.state = "BLINKING" ->
                    setLed(L, mapping.strip, mapping.index,
                           IF data.blinkOn THEN COLOR_BLINK ELSE COLOR_OFF)
               [] OTHER ->
                    renderExpanded(setLed(L, mapping.strip, mapping.index, COLOR_SUCCESS),
                                   mapping, 1, data.animationStep)

animationDue_always(data, nowMillis) == TRUE

\* LedController::updateAnimation: the negation of its early return
animationDue(data, nowMillis) ==
    ~(nowMillis - data.lastAnimationTime < ANIMATION_STEP_MS)

updateAnimation_skip(L, position, nowMillis) ==
    LET data == L.positions[position]
        step == (data.animationStep + 2) % 256
    IN  IF ~animationDue(data, nowMillis) THEN L
        ELSE [L EXCEPT !.positions[position] =
                 [data EXCEPT !.animationStep = Min(step, SUCCESS_EXPANSION_RADIUS),
                              !.lastAnimationTime = nowMillis,
                              !.state = IF step >= SUCCESS_EXPANSION_RADIUS
                                        THEN "EXPANDED" ELSE @],
                        !.needsUpdate = TRUE]

\* LedController::updateAnimation
updateAnimation(L, position, nowMillis) ==
    LET data == L.positions[position]
        step == (data.animationStep + 1) % 256
    IN  IF ~animationDue(data, nowMillis) THEN L
        ELSE [renderPosition(
                 [L EXCEPT !.positions[position] =
                     IF step >= SUCCESS_EXPANSION_RADIUS
                     THEN [data EXCEPT !.animationStep = SUCCESS_EXPANSION_RADIUS,
                                       !.lastAnimationTime = nowMillis,
                                       !.state = "EXPANDED"]
                     ELSE [data EXCEPT !.animationStep = step,
                                       !.lastAnimationTime = nowMillis]],
                 position)
              EXCEPT !.needsUpdate = TRUE]

\* LedController::update: its first loop, from position i
RECURSIVE updateAnimations(_, _, _)
updateAnimations(L, i, nowMillis) ==
    IF i >= NUM_POSITIONS THEN L
    ELSE IF L.positions[i].state = "ANIMATING"
         THEN updateAnimations(updateAnimation(L, i, nowMillis), i + 1, nowMillis)
         ELSE updateAnimations(L, i + 1, nowMillis)

\* LedController::updateBlinking: the loop from position i
RECURSIVE updateBlinkingFrom(_, _, _)
updateBlinkingFrom(L, i, nowMillis) ==
    IF i >= NUM_POSITIONS THEN L
    ELSE LET data == L.positions[i]
         IN  IF /\ data.state = "BLINKING"
                /\ nowMillis - data.lastAnimationTime >= BLINK_INTERVAL_MS
             THEN updateBlinkingFrom(
                      [renderPosition(
                          [L EXCEPT !.positions[i].blinkOn = ~data.blinkOn,
                                    !.positions[i].lastAnimationTime = nowMillis],
                          i)
                       EXCEPT !.needsUpdate = TRUE],
                      i + 1, nowMillis)
             ELSE updateBlinkingFrom(L, i + 1, nowMillis)

updateBlinking(L, nowMillis) == updateBlinkingFrom(L, 0, nowMillis)

\* LedController::startSequenceCompletedAnimation
startSequenceCompletedAnimation(L, t) ==
    [L EXCEPT !.seqActive = TRUE, !.seqStep = 0, !.seqLast = t,
              !.strip1 = fillPixels(NUM_LEDS_STRIP1, COLOR_SUCCESS),
              !.strip2 = fillPixels(NUM_LEDS_STRIP2, COLOR_SUCCESS),
              !.needsUpdate = TRUE]

isSequenceCompletedAnimationComplete_early(L) == TRUE

\* LedController::isSequenceCompletedAnimationComplete
isSequenceCompletedAnimationComplete(L) == ~L.seqActive

\* updateSequenceCompletedAnimation: COLOR_SUCCESS at brightness 255 or 64
pulseColor(step) ==
    LET brightness == IF step % 2 = 0 THEN 255 ELSE 64
    IN  <<(COLOR_SUCCESS[1] * brightness) \div 255,
          (COLOR_SUCCESS[2] * brightness) \div 255,
          (COLOR_SUCCESS[3] * brightness) \div 255>>

updateSequenceCompletedAnimation_rewind(L, nowMillis) ==
    IF nowMillis - L.seqLast < STEP_DURATION THEN L
    ELSE LET step == (L.seqStep + 1) % 256
         IN  IF step < SEQUENCE_ANIM_TOTAL_STEPS
             THEN [L EXCEPT !.seqStep = step, !.seqLast = nowMillis,
                            !.needsUpdate = TRUE]
             ELSE [L EXCEPT !.seqStep = 0, !.seqLast = nowMillis,
                            !.needsUpdate = TRUE,
                            !.positions = [i \in 0..(NUM_POSITIONS - 1) |->
                                [L.positions[i] EXCEPT !.state = "OFF",
                                                       !.animationStep = 0]],
                            !.seqActive = FALSE]

\* LedController::updateSequenceCompletedAnimation
updateSequenceCompletedAnimation(L, nowMillis) ==
    IF nowMillis - L.seqLast < STEP_DURATION THEN L
    ELSE LET step == (L.seqStep + 1) % 256
         IN  IF step < SEQUENCE_ANIM_TOTAL_STEPS
             THEN [L EXCEPT !.seqStep = step, !.seqLast = nowMillis,
                            !.strip1 = fillPixels(NUM_LEDS_STRIP1, pulseColor(step)),
                            !.strip2 = fillPixels(NUM_LEDS_STRIP2, pulseColor(step)),
                            !.needsUpdate = TRUE]
             ELSE [L EXCEPT !.seqStep = step, !.seqLast = nowMillis,
                            !.strip1 = fillPixels(NUM_LEDS_STRIP1, COLOR_OFF),
                            !.strip2 = fillPixels(NUM_LEDS_STRIP2, COLOR_OFF),
                            !.needsUpdate = TRUE,
                            !.positions = [i \in 0..(NUM_POSITIONS - 1) |->
                                [L.positions[i] EXCEPT !.state = "OFF",
                                                       !.animationStep = 0]],
                            !.seqActive = FALSE]

pushes_always(L) == 1

\* LedController::update, "push updates to LEDs if needed": the number of
\* times m_strip1.show() and m_strip2.show() are called
pushes(L) == IF L.needsUpdate THEN 1 ELSE 0

\* LedController::update: the three passes, then the push to the strips;
\* [L, shows], shows being the number of times the strips were shown
update(L, nowMillis) ==
    LET L1 == updateAnimations(L, 0, nowMillis)
        L2 == updateBlinking(L1, nowMillis)
        L3 == IF L2.seqActive THEN updateSequenceCompletedAnimation(L2, nowMillis)
              ELSE L2
    IN  [L |-> [L3 EXCEPT !.needsUpdate = FALSE], shows |-> pushes(L3)]

(***************************************************************************)
(* TouchController                                                         *)
(***************************************************************************)
indexToLetter(index) == IF index < NUM_TOUCH_SENSORS THEN Letters[index + 1] ELSE "?"

\* TouchController::recalibrate: whether it reaches writeRegister
recalibrateWrites(sensors, sensorIndex) ==
    sensorIndex < NUM_TOUCH_SENSORS /\ sensors[sensorIndex].active

recalibrate_blind(sensors, sensorIndex, wr) == sensorIndex < NUM_TOUCH_SENSORS

\* TouchController::recalibrate: its result, wr being writeRegister's
recalibrate(sensors, sensorIndex, wr) ==
    IF sensorIndex >= NUM_TOUCH_SENSORS THEN FALSE
    ELSE IF ~sensors[sensorIndex].active THEN FALSE
    ELSE wr

setExpect_keep(expect, sensorIndex, commandId) ==
    IF sensorIndex >= NUM_TOUCH_SENSORS \/ expect[sensorIndex].active THEN expect
    ELSE [expect EXCEPT ![sensorIndex] = [active |-> TRUE, commandId |-> commandId]]

\* TouchController::setExpectDown and setExpectUp, on either array
setExpect(expect, sensorIndex, commandId) ==
    IF sensorIndex >= NUM_TOUCH_SENSORS THEN expect
    ELSE [expect EXCEPT ![sensorIndex] = [active |-> TRUE, commandId |-> commandId]]

\* TouchController::buildActiveSensorList: the loop from sensor i, with the
\* text written so far
RECURSIVE buildFrom(_, _, _, _)
buildFrom(sensors, i, buffer, bufferSize) ==
    IF i >= NUM_TOUCH_SENSORS THEN buffer
    ELSE IF ~sensors[i].active THEN buildFrom(sensors, i + 1, buffer, bufferSize)
    ELSE LET first == buffer = << >>
             needed == IF first THEN 2 ELSE 3
         IN  IF Len(buffer) + needed > bufferSize THEN buffer
             ELSE CHOOSE r \in {buildFrom(sensors, i + 1, b, bufferSize) : b \in {
                            buffer \o (IF first THEN << >> ELSE <<",">>)
                                   \o <<indexToLetter(i)>>}} : TRUE

buildActiveSensorList_all(sensors, bufferSize) ==
    buildFrom([i \in DOMAIN sensors |-> [sensors[i] EXCEPT !.active = TRUE]],
              0, << >>, bufferSize)

buildActiveSensorList(sensors, bufferSize) ==
    IF bufferSize = 0 THEN << >> ELSE buildFrom(sensors, 0, << >>, bufferSize)

pollSensors_all(sensors, reading, t) ==
    [i \in 0..(NUM_TOUCH_SENSORS - 1) |->
        IF reading[i] # sensors[i].currentTouched
        THEN [sensors[i] EXCEPT !.currentTouched = reading[i], !.lastChangeTime = t]
        ELSE sensors[i]]

\* TouchController::pollSensors; reading[i] is what readRawTouch returns for sensor i
pollSensors(sensors, reading, t) ==
    [i \in 0..(NUM_TOUCH_SENSORS - 1) |->
        IF sensors[i].active /\ reading[i] # sensors[i].currentTouched
        THEN [sensors[i] EXCEPT !.currentTouched = reading[i], !.lastChangeTime = t]
        ELSE sensors[i]]

isStable_any(sensor, t) == TRUE

\* TouchController::processDebounce: the stability test
isStable(sensor, t) == t - sensor.lastChangeTime >= DEBOUNCE_MS

\* TouchController::processDebounce: sensor i's debounced state changes
debounces(sensor, t) ==
    /\ sensor.active
    /\ isStable(sensor, t)
    /\ sensor.currentTouched # sensor.debouncedTouched

reports_held(sensor, t) ==
    /\ sensor.active
    /\ isStable(sensor, t)
    /\ sensor.currentTouched

\* TouchController::processDebounce: sensor i's change is reported
reports(sensor, t) ==
    /\ debounces(sensor, t)
    /\ sensor.currentTouched # sensor.lastReportedTouched

debounceSensor_early(sensor, t) ==
    IF ~debounces(sensor, t)
    THEN [sensor EXCEPT !.lastReportedTouched = sensor.currentTouched]
    ELSE [sensor EXCEPT !.debouncedTouched = sensor.currentTouched,
                        !.lastReportedTouched = sensor.currentTouched]

debounceSensor_silent(sensor, t) ==
    IF ~debounces(sensor, t) THEN sensor
    ELSE [sensor EXCEPT !.debouncedTouched = sensor.currentTouched]

\* TouchController::processDebounce: sensor i's states after it
debounceSensor(sensor, t) ==
    IF ~debounces(sensor, t) THEN sensor
    ELSE IF ~reports(sensor, t)
         THEN [sensor EXCEPT !.debouncedTouched = sensor.currentTouched]
         ELSE [sensor EXCEPT !.debouncedTouched = sensor.currentTouched,
                             !.lastReportedTouched = sensor.currentTouched]

consume_keep(expect) == expect

\* TouchController::processDebounce: the expectation after it was reported
consume(expect) == [active |-> FALSE, commandId |-> NO_COMMAND_ID]

debounceEvent_cross(i, sensor, expectDown, expectUp, t) ==
    IF ~reports(sensor, t) THEN << >>
    ELSE IF sensor.currentTouched
         THEN IF expectUp.active
              THEN <<queueTouchedDown(indexToLetter(i), expectUp.commandId)>>
              ELSE <<queueTouchDown(indexToLetter(i))>>
         ELSE IF expectDown.active
              THEN <<queueTouchedUp(indexToLetter(i), expectDown.commandId)>>
              ELSE <<queueTouchUp(indexToLetter(i))>>

\* the event processDebounce queues for sensor i, as a sequence of 0 or 1 events
debounceEvent(i, sensor, expectDown, expectUp, t) ==
    IF ~reports(sensor, t) THEN << >>
    ELSE IF sensor.currentTouched
         THEN IF expectDown.active
              THEN <<queueTouchedDown(indexToLetter(i), expectDown.commandId)>>
              ELSE <<queueTouchDown(indexToLetter(i))>>
         ELSE IF expectUp.active
              THEN <<queueTouchedUp(indexToLetter(i), expectUp.commandId)>>
              ELSE <<queueTouchUp(indexToLetter(i))>>

RECURSIVE debounceEventsFrom(_, _, _, _, _)
debounceEventsFrom(i, sensors, expectDown, expectUp, t) ==
    IF i >= NUM_TOUCH_SENSORS THEN << >>
    ELSE debounceEvent(i, sensors[i], expectDown[i], expectUp[i], t)
         \o debounceEventsFrom(i + 1, sensors, expectDown, expectUp, t)

\* TouchController::processDebounce, m_eventQueue being set (main.cpp, setup)
processDebounce(sensors, expectDown, expectUp, t) ==
    [sensors |-> [i \in 0..(NUM_TOUCH_SENSORS - 1) |-> debounceSensor(sensors[i], t)],
     expectDown |-> [i \in 0..(NUM_TOUCH_SENSORS - 1) |->
         IF reports(sensors[i], t) /\ sensors[i].currentTouched /\ expectDown[i].active
         THEN consume(expectDown[i]) ELSE expectDown[i]],
     expectUp |-> [i \in 0..(NUM_TOUCH_SENSORS - 1) |->
         IF reports(sensors[i], t) /\ ~sensors[i].currentTouched /\ expectUp[i].active
         THEN consume(expectUp[i]) ELSE expectUp[i]],
     events |-> debounceEventsFrom(0, sensors, expectDown, expectUp, t)]

\* TouchController::tick: the negation of its rate limit
pollDue(t, lastPollTime) == ~(t - lastPollTime < TOUCH_POLL_INTERVAL_MS)

(***************************************************************************)
(* CommandController                                                       *)
(* A handler's working state is one value                                  *)
(*   S = [cq, led, expectDown, expectUp, events, cal]                      *)
(* cq the slot array, led the LedController, events the enqueue calls made *)
(* so far and cal the sensors whose calibration register was written.      *)
(***************************************************************************)
Actions == {"SHOW", "HIDE", "SUCCESS", "BLINK", "STOP_BLINK", "EXPECT_DOWN",
            "EXPECT_UP", "RECALIBRATE", "RECALIBRATE_ALL", "SCAN",
            "SEQUENCE_COMPLETED", "INFO", "PING"}

\* what parseLine returns for "ACTION <letter> #<id>", index 255 standing for
\* a line without a letter and hasId FALSE for a line without an id
Command(action, index, hasId, id) ==
    [action |-> action,
     hasPosition |-> index # 255,
     position |-> IF index # 255 THEN Letters[index + 1] ELSE "",
     positionIndex |-> index,
     hasId |-> hasId,
     id |-> IF hasId THEN id ELSE NO_COMMAND_ID,
     valid |-> TRUE]

\* a ParsedCommand and a QueuedCommand of the zero-initialised controller
NoCommand == [action |-> "INVALID", hasPosition |-> FALSE, position |-> "",
              positionIndex |-> 0, hasId |-> FALSE, id |-> 0, valid |-> FALSE]

NoQueuedCommand == [command |-> NoCommand, active |-> FALSE, startTime |-> 0,
                    state |-> 0, scanAddress |-> 0]

actionToString(action) ==
    CASE action = "SHOW" -> S_SHOW
      [] action = "HIDE" -> S_HIDE
      [] action = "SUCCESS" -> S_SUCCESS
      [] action = "BLINK" -> S_BLINK
      [] action = "STOP_BLINK" -> S_STOP_BLINK
      [] action = "EXPECT_DOWN" -> S_EXPECT_DOWN
      [] action = "EXPECT_UP" -> S_EXPECT_UP
      [] action = "RECALIBRATE" -> S_RECALIBRATE
      [] action = "RECALIBRATE_ALL" -> S_RECALIBRATE_ALL
      [] action = "SCAN" -> S_SCAN
      [] action = "SEQUENCE_COMPLETED" -> S_SEQUENCE_COMPLETED
      [] action = "INFO" -> S_INFO
      [] action = "PING" -> S_PING
      [] OTHER -> S_UNKNOWN

actionRequiresPosition_none(action) == FALSE

actionRequiresPosition(action) ==
    action \in {"SHOW", "HIDE", "SUCCESS", "BLINK", "STOP_BLINK",
                "EXPECT_DOWN", "EXPECT_UP", "RECALIBRATE"}

actionIsLongRunning(action) ==
    action \in {"SUCCESS", "SCAN", "RECALIBRATE_ALL", "SEQUENCE_COMPLETED"}

idOf(cmd) == IF cmd.hasId THEN cmd.id ELSE NO_COMMAND_ID

(***************************************************************************)
(* CommandController: the parser.  A line is the text of m_lineBuffer up   *)
(* to its NUL; ptr is an index into it, Len(line) + 1 being the NUL.       *)
(* skipWhitespace, findTokenEnd, strcasecmpN and charToIndex are defined   *)
(* after the end of the available CommandController.cpp; they are taken    *)
(* from their declarations in CommandController.h and the grammar of       *)
(* spec.md 4.2: tokens are separated by blanks, actions and positions are  *)
(* matched without regard to case, positions are the letters A to Y.       *)
(***************************************************************************)
isWhitespace(c) == c \in {" ", "\t"}

\* the first index from ptr on that is the NUL or holds no blank
skipWhitespace(line, ptr) ==
    CHOOSE k \in ptr..(Len(line) + 1) :
        /\ k = Len(line) + 1 \/ ~isWhitespace(line[k])
        /\ \A j \in ptr..(k - 1) : isWhitespace(line[j])

\* the first index from ptr on that is the NUL or holds a blank
findTokenEnd(line, ptr) ==
    CHOOSE k \in ptr..(Len(line) + 1) :
        /\ k = Len(line) + 1 \/ isWhitespace(line[k])
        /\ \A j \in ptr..(k - 1) : ~isWhitespace(line[j])

strcasecmpN(a, b, len) == \A k \in 1..len : toUpper(a[k]) = toUpper(b[k])

charToIndex(c) ==
    IF \E k \in 1..NUM_POSITIONS : Letters[k] = toUpper(c)
    THEN (CHOOSE k \in 1..NUM_POSITIONS : Letters[k] = toUpper(c)) - 1
    ELSE 255

\* parseAction's comparisons, in its order
ActionNames ==
    <<[action |-> "SHOW", name |-> S_SHOW],
      [action |-> "HIDE", name |-> S_HIDE],
      [action |-> "SUCCESS", name |-> S_SUCCESS],
      [action |-> "BLINK", name |-> S_BLINK],
      [action |-> "STOP_BLINK", name |-> S_STOP_BLINK],
      [action |-> "EXPECT_DOWN", name |-> S_EXPECT_DOWN],
      [action |-> "EXPECT_UP", name |-> S_EXPECT_UP],
      [action |-> "RECALIBRATE", name |-> S_RECALIBRATE],
      [action |-> "RECALIBRATE_ALL", name |-> S_RECALIBRATE_ALL],
      [action |-> "SCAN", name |-> S_SCAN],
      [action |-> "SEQUENCE_COMPLETED", name |-> S_SEQUENCE_COMPLETED],
      [action |-> "INFO", name |-> S_INFO],
      [action |-> "PING", name |-> S_PING]>>

\* CommandController::parseAction
parseAction(str) ==
    LET matches == {k \in DOMAIN ActionNames :
                       /\ Len(str) = Len(ActionNames[k].name)
                       /\ strcasecmpN(str, ActionNames[k].name, Len(str))}
    IN  IF matches = {} THEN "INVALID"
        ELSE ActionNames[CHOOSE k \in matches : \A j \in matches : k <= j].action

\* parseLine: the digits of a command id, from ptr.  The ids of the model stay
\* far below 2^32, where uint32_t's arithmetic is that of the integers.
RECURSIVE parseDigits(_, _, _, _)
parseDigits(line, ptr, id, hasDigits) ==
    IF ptr <= Len(line) /\ isDigit(line[ptr])
    THEN parseDigits(line, ptr + 1, id * 10 + digitValue(line[ptr]), TRUE)
    ELSE [ptr |-> ptr, id |-> id, hasDigits |-> hasDigits]

parseFailed(cmd, reason, commandId) ==
    [ok |-> FALSE, cmd |-> cmd, events |-> <<queueError(reason, commandId)>>]

\* parseLine: the loop over the tokens after the action, then the validation
RECURSIVE parseTokens(_, _, _)
parseTokens(line, ptr, cmd) ==
    IF ptr > Len(line)
    THEN IF actionRequiresPosition(cmd.action) /\ ~cmd.hasPosition
         THEN parseFailed(cmd, S_bad_format, idOf(cmd))
         ELSE [ok |-> TRUE, cmd |-> [cmd EXCEPT !.valid = TRUE], events |-> << >>]
    ELSE IF line[ptr] = "#"
    THEN LET d == parseDigits(line, ptr + 1, 0, FALSE)
         IN  IF ~d.hasDigits
             THEN parseFailed(cmd, S_bad_format, NO_COMMAND_ID)
             ELSE parseTokens(line, skipWhitespace(line, d.ptr),
                              [cmd EXCEPT !.hasId = TRUE, !.id = d.id])
    ELSE LET tokenEnd == findTokenEnd(line, ptr)
             tokenLen == tokenEnd - ptr
             c == line[ptr]
             idx == charToIndex(c)
         IN  IF tokenLen = 1
             THEN IF idx # 255
                  THEN parseTokens(line, skipWhitespace(line, tokenEnd),
                                   [cmd EXCEPT !.hasPosition = TRUE,
                                               !.position = toUpper(c),
                                               !.positionIndex = idx])
                  ELSE parseFailed(cmd, S_unknown_position, idOf(cmd))
             ELSE IF tokenLen > 1
                  THEN parseFailed(cmd, S_bad_format, idOf(cmd))
                  ELSE parseTokens(line, skipWhitespace(line, tokenEnd), cmd)

\* CommandController::parseLine: [ok, cmd, events], ok being its return value
\* and events the error it queued
parseLine(line) ==
    LET cmd0 == [action |-> "INVALID", hasPosition |-> FALSE, position |-> "",
                 positionIndex |-> 255, hasId |-> FALSE, id |-> NO_COMMAND_ID,
                 valid |-> FALSE]
        p0 == skipWhitespace(line, 1)
        ptr == IF p0 + 2 <= Len(line) /\ SubSeq(line, p0, p0 + 2) = S_PI
               THEN skipWhitespace(line, p0 + 3)
               ELSE p0
        actionEnd == findTokenEnd(line, ptr)
        action == parseAction(SubSeq(line, ptr, actionEnd - 1))
    IN  IF actionEnd - ptr = 0
        THEN parseFailed(cmd0, S_bad_format, NO_COMMAND_ID)
        ELSE IF action = "INVALID"
        THEN parseFailed(cmd0, S_unknown_action, NO_COMMAND_ID)
        ELSE parseTokens(line, skipWhitespace(line, actionEnd),
                         [cmd0 EXCEPT !.action = action])

(***************************************************************************)
(* CommandController: the ring buffer.  rx = [buffer, head, tail]          *)
(***************************************************************************)
RX == [buffer |-> m_rxBuffer, head |-> m_rxHead, tail |-> m_rxTail]

SetRX(rx) ==
    /\ m_rxBuffer' = rx.buffer
    /\ m_rxHead' = rx.head
    /\ m_rxTail' = rx.tail

rxHasRoom_always(nextHead, tail) == TRUE

\* pollSerial: "check for buffer full (leave one slot empty)"
rxHasRoom(nextHead, tail) == nextHead # tail

\* pollSerial: the bytes of the available ones that the loop stores.  A byte
\* is stored if the slot after m_rxHead is not m_rxTail; a byte that is not
\* leaves the cursors as they are, so that none after it is stored either.
storedCount(rx, bytes) ==
    CHOOSE n \in 0..Len(bytes) :
        /\ \A j \in 1..n : rxHasRoom((rx.head + j) % RX_BUFFER_SIZE, rx.tail)
        /\ n < Len(bytes) =>
               ~rxHasRoom((rx.head + n + 1) % RX_BUFFER_SIZE, rx.tail)

\* CommandController::pollSerial, bytes being what Serial has available
pollSerial(rx, bytes) ==
    LET n == storedCount(rx, bytes)
        offset(i) == (i + RX_BUFFER_SIZE - rx.head) % RX_BUFFER_SIZE
    IN  [rx EXCEPT !.buffer = [i \in DOMAIN rx.buffer |->
                        IF offset(i) < n THEN bytes[offset(i) + 1]
                        ELSE rx.buffer[i]],
                  !.head = (rx.head + n) % RX_BUFFER_SIZE]

\* extractLine: "pending"
pendingBytes(rx) ==
    IF rx.head >= rx.tail THEN rx.head - rx.tail
    ELSE RX_BUFFER_SIZE - rx.tail + rx.head

\* the byte k places after m_rxTail
rxAt(rx, k) == rx.buffer[(rx.tail + k) % RX_BUFFER_SIZE]

\* extractLine: the scan for a newline, from m_rxTail up to m_rxHead
foundNewline(rx) ==
    \E k \in 0..(pendingBytes(rx) - 1) : isTerminator(rxAt(rx, k))

overflowAdvance_all(rx) == pendingBytes(rx)

\* extractLine: the bytes it discards when no newline is found
overflowAdvance(rx) == MAX_LINE_LEN

extractChars_long(rx) ==
    LET e == CHOOSE k \in 0..(pendingBytes(rx) - 1) :
                 /\ isTerminator(rxAt(rx, k))
                 /\ \A j \in 0..(k - 1) : ~isTerminator(rxAt(rx, j))
        s == CHOOSE k \in 0..(pendingBytes(rx) - e - 1) :
                 /\ \A j \in 1..k : isTerminator(rxAt(rx, e + j))
                 /\ e + k + 1 < pendingBytes(rx) => ~isTerminator(rxAt(rx, e + k + 1))
    IN  [rx |-> [rx EXCEPT !.tail = (rx.tail + e + 1 + s) % RX_BUFFER_SIZE],
         text |-> [k \in 1..e |-> rxAt(rx, k - 1)],
         overflow |-> e > MAX_LINE_LEN - 1]

extractChars_single(rx) ==
    LET e == CHOOSE k \in 0..(pendingBytes(rx) - 1) :
                 /\ isTerminator(rxAt(rx, k))
                 /\ \A j \in 0..(k - 1) : ~isTerminator(rxAt(rx, j))
    IN  [rx |-> [rx EXCEPT !.tail = (rx.tail + e + 1) % RX_BUFFER_SIZE],
         text |-> [k \in 1..Min(e, MAX_LINE_LEN - 1) |-> rxAt(rx, k - 1)],
         overflow |-> e > MAX_LINE_LEN - 1]

\* extractLine: "extract characters up to newline", for a buffer that holds a
\* newline.  The loop takes the e bytes before the first newline, keeps those
\* for which m_lineIndex < MAX_LINE_LEN - 1 and sets m_lineOverflow for the
\* others, takes the newline, and skips the s CR/LF that follow it.
extractChars(rx) ==
    LET e == CHOOSE k \in 0..(pendingBytes(rx) - 1) :
                 /\ isTerminator(rxAt(rx, k))
                 /\ \A j \in 0..(k - 1) : ~isTerminator(rxAt(rx, j))
        s == CHOOSE k \in 0..(pendingBytes(rx) - e - 1) :
                 /\ \A j \in 1..k : isTerminator(rxAt(rx, e + j))
                 /\ e + k + 1 < pendingBytes(rx) => ~isTerminator(rxAt(rx, e + k + 1))
    IN  [rx |-> [rx EXCEPT !.tail = (rx.tail + e + 1 + s) % RX_BUFFER_SIZE],
         text |-> [k \in 1..Min(e, MAX_LINE_LEN - 1) |-> rxAt(rx, k - 1)],
         overflow |-> e > MAX_LINE_LEN - 1]

\* CommandController::extractLine: [found, rx, line, index, overflow], found
\* being its return value and line the text of m_lineBuffer
extractLine(rx, line) ==
    IF rx.head = rx.tail
    THEN [found |-> FALSE, rx |-> rx, line |-> line, index |-> 0, overflow |-> FALSE]
    ELSE IF ~foundNewline(rx)
    THEN IF pendingBytes(rx) >= MAX_LINE_LEN
         THEN [found |-> TRUE,
               rx |-> [rx EXCEPT !.tail = (rx.tail + overflowAdvance(rx))
                                              % RX_BUFFER_SIZE],
               line |-> line, index |-> 0, overflow |-> TRUE]
         ELSE [found |-> FALSE, rx |-> rx, line |-> line, index |-> 0,
               overflow |-> FALSE]
    ELSE LET r == extractChars(rx)
         IN  [found |-> TRUE, rx |-> r.rx, line |-> r.text, index |-> Len(r.text),
              overflow |-> r.overflow]

WorkState == [cq |-> m_commandQueue, led |-> LED, expectDown |-> m_expectDown,
              expectUp |-> m_expectUp, events |-> << >>, cal |-> << >>]

emit(S, event) == [S EXCEPT !.events = Append(S.events, event)]

ledReply_silent(S, r, cmd) == [S EXCEPT !.led = r.L]

\* an LED operation's ACK or ERR in executeInstant
ledReply(S, r, cmd) ==
    emit([S EXCEPT !.led = r.L],
         IF r.ok THEN queueAck(actionToString(cmd.action), cmd.position, idOf(cmd))
         ELSE queueError(S_command_failed, idOf(cmd)))

executeInstant_unguarded(S, cmd, t, wr) ==
    CASE cmd.action = "EXPECT_DOWN" ->
             emit([S EXCEPT !.expectDown =
                       setExpect(S.expectDown, cmd.positionIndex, idOf(cmd))],
                  queueAck(actionToString(cmd.action), cmd.position, idOf(cmd)))
      [] cmd.action = "EXPECT_UP" ->
             emit([S EXCEPT !.expectUp =
                       setExpect(S.expectUp, cmd.positionIndex, idOf(cmd))],
                  queueAck(actionToString(cmd.action), cmd.position, idOf(cmd)))
      [] OTHER -> emit(S, queueError(S_command_failed, idOf(cmd)))

\* CommandController::executeInstant; wr is what writeRegister returns if called
executeInstant(S, cmd, t, wr) ==
    LET id == idOf(cmd)
        action == actionToString(cmd.action)
    IN  CASE cmd.action = "SHOW" -> ledReply(S, show(S.led, cmd.positionIndex), cmd)
          [] cmd.action = "HIDE" -> ledReply(S, hide(S.led, cmd.positionIndex), cmd)
          [] cmd.action = "BLINK" -> ledReply(S, blink(S.led, cmd.positionIndex, t), cmd)
          [] cmd.action = "STOP_BLINK" ->
                ledReply(S, stopBlink(S.led, cmd.positionIndex), cmd)
          [] cmd.action = "RECALIBRATE" ->
                IF m_touchController
                THEN LET S1 == IF recalibrateWrites(m_sensors, cmd.positionIndex)
                               THEN [S EXCEPT !.cal = Append(S.cal, cmd.positionIndex)]
                               ELSE S
                     IN  IF recalibrate(m_sensors, cmd.positionIndex, wr)
                         THEN emit(emit(S1, queueAck(action, cmd.position, id)),
                                   queueRecalibrated(cmd.position, id))
                         ELSE emit(S1, queueError(S_command_failed, id))
                ELSE emit(S, queueError(S_no_touch_controller, id))
          [] cmd.action = "EXPECT_DOWN" ->
                IF m_touchController
                THEN emit([S EXCEPT !.expectDown =
                               setExpect(S.expectDown, cmd.positionIndex, id)],
                          queueAck(action, cmd.position, id))
                ELSE emit(S, queueError(S_no_touch_controller, id))
          [] cmd.action = "EXPECT_UP" ->
                IF m_touchController
                THEN emit([S EXCEPT !.expectUp =
                               setExpect(S.expectUp, cmd.positionIndex, id)],
                          queueAck(action, cmd.position, id))
                ELSE emit(S, queueError(S_no_touch_controller, id))
          [] cmd.action = "INFO" -> emit(S, queueInfo(id))
          [] cmd.action = "PING" -> emit(S, queueAck(S_PING, "", id))
          [] OTHER -> emit(S, queueError(S_unknown_action, id))

freeSlots_last(cq) ==
    {i \in 0..(COMMAND_QUEUE_SIZE - 1) : i = COMMAND_QUEUE_SIZE - 1 \/ ~cq[i].active}

\* CommandController::queueCommand: the slots its loop may take
freeSlots(cq) == {i \in 0..(COMMAND_QUEUE_SIZE - 1) : ~cq[i].active}

\* CommandController::queueCommand: [S, ok], ok being its return value
queueCommand(S, cmd, t) ==
    IF freeSlots(S.cq) = {} THEN [S |-> S, ok |-> FALSE]
    ELSE LET i == CHOOSE k \in freeSlots(S.cq) : \A j \in freeSlots(S.cq) : k <= j
             S1 == [S EXCEPT !.cq[i] = [command |-> cmd, active |-> TRUE,
                                        startTime |-> t, state |-> 0,
                                        scanAddress |-> 0]]
             id == idOf(cmd)
             action == actionToString(cmd.action)
             release == [S1 EXCEPT !.cq[i].active = FALSE]
         IN  CASE cmd.action = "SUCCESS" ->
                    [S |-> emit([S1 EXCEPT !.led = success(S1.led, cmd.positionIndex, t).L],
                                queueAck(action, cmd.position, id)),
                     ok |-> TRUE]
               [] cmd.action = "SCAN" ->
                    IF m_touchController
                    THEN [S |-> emit(S1, queueAck(action, "", id)), ok |-> TRUE]
                    ELSE [S |-> emit(release, queueError(S_no_touch_controller, id)),
                          ok |-> FALSE]
               [] cmd.action = "RECALIBRATE_ALL" ->
                    IF m_touchController
                    THEN [S |-> emit(S1, queueAck(action, "", id)), ok |-> TRUE]
                    ELSE [S |-> emit(release, queueError(S_no_touch_controller, id)),
                          ok |-> FALSE]
               [] cmd.action = "SEQUENCE_COMPLETED" ->
                    [S |-> emit([S1 EXCEPT !.led =
                                     startSequenceCompletedAnimation(S1.led, t)],
                                queueAck(action, "", id)),
                     ok |-> TRUE]
               [] OTHER -> [S |-> S1, ok |-> TRUE]

\* CommandController::executeCommand
executeCommand(S, cmd, t, wr) ==
    IF actionIsLongRunning(cmd.action)
    THEN LET r == queueCommand(S, cmd, t)
         IN  IF ~r.ok THEN emit(r.S, queueError(S_busy, idOf(cmd))) ELSE r.S
    ELSE executeInstant(S, cmd, t, wr)

\* CommandController::processCompletedLines: [rx, line, index, overflow, S,
\* executed], line being the text of m_lineBuffer and executed the commands
\* it passed to executeCommand, in order
RECURSIVE processCompletedLines(_, _, _, _, _, _)
processCompletedLines(rx, line, S, t, wr, executed) ==
    LET r == extractLine(rx, line)
        ptr == skipWhitespace(r.line, 1)
        p == parseLine(SubSeq(r.line, ptr, Len(r.line)))
    IN  IF ~r.found
        THEN [rx |-> r.rx, line |-> r.line, index |-> r.index,
              overflow |-> r.overflow, S |-> S, executed |-> executed]
        ELSE IF r.overflow
        THEN processCompletedLines(r.rx, r.line,
                 emit(S, queueError(S_line_too_long, NO_COMMAND_ID)),
                 t, wr, executed)
        ELSE IF ptr > Len(r.line)
        THEN processCompletedLines(r.rx, r.line, S, t, wr, executed)
        ELSE IF ~p.ok
        THEN processCompletedLines(r.rx, r.line,
                 [S EXCEPT !.events = S.events \o p.events], t, wr, executed)
        ELSE processCompletedLines(r.rx, r.line, executeCommand(S, p.cmd, t, wr),
                 t, wr, Append(executed, p.cmd))

sensorsPerTick_all == NUM_TOUCH_SENSORS

\* tickCommand's SENSORS_PER_TICK
sensorsPerTick == SENSORS_PER_TICK

\* tickCommand, RECALIBRATE_ALL: the for loop, from its iteration i
RECURSIVE recalibrateChunk(_, _, _)
recalibrateChunk(S, k, i) ==
    IF i < sensorsPerTick /\ S.cq[k].scanAddress < NUM_TOUCH_SENSORS
    THEN CHOOSE r \in {recalibrateChunk(n, k, i + 1) : n \in {
             [S EXCEPT !.cal = IF recalibrateWrites(m_sensors, S.cq[k].scanAddress)
                               THEN Append(S.cal, S.cq[k].scanAddress) ELSE S.cal,
                       !.cq[k].scanAddress = (S.cq[k].scanAddress + 1) % 256]}} : TRUE
    ELSE S

tickCommand_idle(S, k) == S

tickCommand_retry(S, k) ==
    IF S.cq[k].active /\ S.cq[k].command.action = "SCAN"
    THEN emit(S, queueScanned(buildActiveSensorList(m_sensors, SENSOR_LIST_SIZE),
                              idOf(S.cq[k].command)))
    ELSE [S EXCEPT !.cq[k].active = FALSE]

\* CommandController::tickCommand on slot k
tickCommand(S, k) ==
    LET qc == S.cq[k]
        id == idOf(qc.command)
        done == [S EXCEPT !.cq[k].active = FALSE]
    IN  IF ~qc.active THEN S
        ELSE CASE qc.command.action = "SUCCESS" ->
                    IF isAnimationComplete(S.led, qc.command.positionIndex)
                    THEN emit(done, queueDone(S_SUCCESS, qc.command.position, id))
                    ELSE S
               [] qc.command.action = "SCAN" ->
                    IF m_touchController
                    THEN emit(done, queueScanned(
                             buildActiveSensorList(m_sensors, SENSOR_LIST_SIZE), id))
                    ELSE done
               [] qc.command.action = "RECALIBRATE_ALL" ->
                    IF m_touchController
                    THEN LET S1 == recalibrateChunk(S, k, 0)
                         IN  IF S1.cq[k].scanAddress >= NUM_TOUCH_SENSORS
                             THEN emit([S1 EXCEPT !.cq[k].active = FALSE],
                                       queueRecalibrated("", id))
                             ELSE S1
                    ELSE done
               [] qc.command.action = "SEQUENCE_COMPLETED" ->
                    IF isSequenceCompletedAnimationComplete(S.led)
                    THEN emit(done, queueDone(S_SEQUENCE_COMPLETED, "", id))
                    ELSE S
               [] OTHER -> done

\* CommandController::tick: the loop from slot k
RECURSIVE tickFrom(_, _)
tickFrom(S, k) ==
    IF k >= COMMAND_QUEUE_SIZE THEN S
    ELSE CHOOSE r \in {tickFrom(n, k + 1) :
                          n \in {IF S.cq[k].active THEN tickCommand(S, k)
                                                   ELSE S}} : TRUE

tick(S) == tickFrom(S, 0)

\* a command handler's result written back
SetWork(S) ==
    /\ m_commandQueue' = S.cq
    /\ SetLED(S.led)
    /\ m_expectDown' = S.expectDown
    /\ m_expectUp' = S.expectUp
    /\ offered' = S.events
    /\ calWrites' = S.cal
    /\ SetEQ(enqueueAll(EQ, S.events))

(***************************************************************************)
(* The initial state: the end of setup()                                   *)
(***************************************************************************)
\* millis() when loop() first runs is at least TouchController::begin's delay(100)
SETUP_DELAY_MS == 100

\* the sensors whose initSensor may fail
MayFail == {0}

Sensors == 0..(NUM_TOUCH_SENSORS - 1)
Positions == 0..(NUM_POSITIONS - 1)

\* what the host knows of its EXPECT commands for one sensor and direction:
\* whether one is waiting for its answer, its id, and the answers received
NoPending ==
    [armed |-> FALSE, id |-> NO_COMMAND_ID, answered |-> 0, replaced |-> {}]

\* replaced: the ids of the EXPECT commands another one took the place of
armed(pending, cmd) ==
    [pending EXCEPT ![cmd.positionIndex].armed = TRUE,
                    ![cmd.positionIndex].id = idOf(cmd),
                    ![cmd.positionIndex].replaced =
                        IF pending[cmd.positionIndex].armed
                        THEN @ \cup {pending[cmd.positionIndex].id}
                        ELSE @]

answered(pending, events, type) ==
    [i \in DOMAIN pending |->
        IF \E k \in DOMAIN events : /\ events[k].type = type
                                    /\ events[k].position = indexToLetter(i)
        THEN [armed |-> FALSE, id |-> NO_COMMAND_ID,
              answered |-> pending[i].answered + 1,
              replaced |-> pending[i].replaced]
        ELSE pending[i]]

\* what the host has sent of its current line: the bytes before the
\* terminator, and whether the terminator was sent
NoLineSent == [len |-> 0, done |-> TRUE]

\* EventQueue::begin, then setup's queueInfo(NO_COMMAND_ID) and flush(1)
SetupFlush ==
    flush(enqueue([queue |-> [i \in 0..(EVENT_QUEUE_SIZE - 1) |-> NoEvent],
                   head |-> 0, tail |-> 0, count |-> 0],
                  queueInfo(NO_COMMAND_ID)),
          1)

InitWith(touchControllers) ==
    /\ now = SETUP_DELAY_MS
    /\ pc = "serial"
    /\ lines = 0
    /\ m_queue = SetupFlush.q.queue
    /\ m_head = SetupFlush.q.head
    /\ m_tail = SetupFlush.q.tail
    /\ m_count = SetupFlush.q.count
    /\ m_commandQueue = [i \in 0..(COMMAND_QUEUE_SIZE - 1) |-> NoQueuedCommand]
    /\ m_touchController \in touchControllers
    /\ m_positions = [i \in Positions |->
           [state |-> "OFF", animationStep |-> 0, lastAnimationTime |-> 0,
            blinkOn |-> FALSE]]
    /\ m_sequenceAnimActive = FALSE
    /\ m_sequenceAnimStep = 0
    /\ m_sequenceAnimLastTime = 0
    /\ m_needsUpdate = FALSE
    /\ m_strip1 = fillPixels(NUM_LEDS_STRIP1, COLOR_OFF)
    /\ m_strip2 = fillPixels(NUM_LEDS_STRIP2, COLOR_OFF)
    /\ \E failed \in SUBSET MayFail :
           m_sensors = [i \in Sensors |->
               [active |-> i \notin failed, currentTouched |-> FALSE,
                debouncedTouched |-> FALSE, lastReportedTouched |-> FALSE,
                lastChangeTime |-> 0]]
    /\ m_expectDown = [i \in Sensors |-> [active |-> FALSE, commandId |-> NO_COMMAND_ID]]
    /\ m_expectUp = [i \in Sensors |-> [active |-> FALSE, commandId |-> NO_COMMAND_ID]]
    /\ m_lastPollTime = 0
    /\ offered = <<queueInfo(NO_COMMAND_ID)>>
    /\ serialOut = SetupFlush.out
    /\ lastOp = [op |-> "setup", cmd |-> NoCommand, arg |-> 0]
    /\ calWrites = << >>
    /\ enqCalls = 0
    /\ enqLog = <<sendEvent(queueInfo(NO_COMMAND_ID))>>
    /\ outLog = SetupFlush.out
    /\ sampleVal = [i \in Sensors |-> FALSE]
    /\ sampleSince = [i \in Sensors |-> 0]
    /\ sampleBase = [i \in Sensors |-> FALSE]
    /\ sampleEvents = [i \in Sensors |-> 0]
    /\ pendingDown = [i \in Sensors |-> NoPending]
    /\ pendingUp = [i \in Sensors |-> NoPending]
    /\ m_rxBuffer = [i \in 0..(RX_BUFFER_SIZE - 1) |-> ""]
    /\ m_rxHead = 0
    /\ m_rxTail = 0
    /\ m_lineBuffer = << >>
    /\ m_lineIndex = 0
    /\ m_lineOverflow = FALSE
    /\ hostLine = << >>
    /\ hostSent = NoLineSent
    /\ hostEvents = << >>

(***************************************************************************)
(* loop(): one action per call it makes                                    *)
(***************************************************************************)
\* processCompletedLines: one line parsed into cmd and executed.  The line's
\* passage through the ring buffer is not followed here: cmd is what parseLine
\* returned for a line extractLine delivered.  PollSerial and
\* ProcessCompletedLines below follow the bytes.
ExecuteCommand(cmd, wr) ==
    /\ pc = "serial"
    /\ \E S \in {executeCommand(WorkState, cmd, now, wr)} : SetWork(S)
    /\ lines' = lines + 1
    \* arg is 1 if a call of writeRegister would fail
    /\ lastOp' = [op |-> "executeCommand", cmd |-> cmd, arg |-> IF wr THEN 0 ELSE 1]
    /\ serialOut' = << >>
    \* an EXPECT command that was accepted waits for its answer
    /\ pendingDown' = IF cmd.action = "EXPECT_DOWN" /\ m_touchController
                      THEN armed(pendingDown, cmd)
                      ELSE pendingDown
    /\ pendingUp' = IF cmd.action = "EXPECT_UP" /\ m_touchController
                    THEN armed(pendingUp, cmd)
                    ELSE pendingUp
    /\ UNCHANGED <<now, pc, m_touchController, m_sensors, m_lastPollTime,
                   logVars, sampleVars, rxVars, lineVars, hostVars>>

\* the EXPECT commands among cmds, in order, each waiting for its answer
RECURSIVE armedAll(_, _, _)
armedAll(pending, cmds, action) ==
    IF cmds = << >> THEN pending
    ELSE IF Head(cmds).action = action
         THEN armedAll(armed(pending, Head(cmds)), Tail(cmds), action)
         ELSE armedAll(pending, Tail(cmds), action)

\* the bytes of a chunk that are not line terminators
textOf(bytes) == SelectSeq(bytes, LAMBDA c : ~isTerminator(c))

\* commandController.pollSerial(); bytes is what Serial has available, at most
\* one line of the host's with its terminator, if any, at the end.  A line of
\* the host's may arrive over several calls; maxLines and maxLen bound the
\* lines the host sends and their length.
PollSerial(bytes, maxLines, maxLen) ==
    /\ pc = "serial"
    /\ pc' = "lines"
    /\ IF hostSent.done THEN lines < maxLines ELSE TRUE
    /\ (IF hostSent.done THEN 0 ELSE hostSent.len) + Len(textOf(bytes)) <= maxLen
    /\ \E rx \in {pollSerial(RX, bytes)} : SetRX(rx)
    /\ lines' = IF hostSent.done THEN lines + 1 ELSE lines
    /\ hostLine' = IF hostSent.done THEN textOf(bytes) ELSE hostLine \o textOf(bytes)
    /\ hostSent' = [len |-> Len(hostLine'),
                    done |-> isTerminator(bytes[Len(bytes)])]
    /\ hostEvents' = IF hostSent.done THEN << >> ELSE hostEvents
    /\ lastOp' = [op |-> "pollSerial", cmd |-> NoCommand, arg |-> Len(bytes)]
    /\ offered' = << >>
    /\ serialOut' = << >>
    /\ calWrites' = << >>
    /\ UNCHANGED <<now, eqVars, cmdVars, lineVars, ledVars, touchVars, logVars,
                   sampleVars, pendingVars>>

\* commandController.pollSerial() when Serial has nothing available
PollNothing ==
    /\ pc = "serial"
    /\ pc' = "lines"
    /\ lastOp' = [op |-> "pollSerial", cmd |-> NoCommand, arg |-> 0]
    /\ offered' = << >>
    /\ serialOut' = << >>
    /\ calWrites' = << >>
    /\ UNCHANGED <<now, lines, eqVars, cmdVars, rxVars, lineVars, ledVars,
                   touchVars, logVars, sampleVars, pendingVars, hostVars>>

\* commandController.processCompletedLines(); wr is what writeRegister returns
\* to the RECALIBRATE commands among the lines
ProcessCompletedLines(wr) ==
    /\ pc = "lines"
    /\ pc' = "tick"
    /\ \E r \in {processCompletedLines(RX, m_lineBuffer, WorkState, now, wr, << >>)} :
           /\ SetRX(r.rx)
           /\ m_lineBuffer' = r.line
           /\ m_lineIndex' = r.index
           /\ m_lineOverflow' = r.overflow
           /\ SetWork(r.S)
           /\ hostEvents' = hostEvents \o r.S.events
           /\ lastOp' = [op |-> "processCompletedLines",
                         cmd |-> IF r.executed = << >> THEN NoCommand
                                 ELSE r.executed[Len(r.executed)],
                         arg |-> Len(r.executed)]
           /\ pendingDown' = IF m_touchController
                             THEN armedAll(pendingDown, r.executed, "EXPECT_DOWN")
                             ELSE pendingDown
           /\ pendingUp' = IF m_touchController
                           THEN armedAll(pendingUp, r.executed, "EXPECT_UP")
                           ELSE pendingUp
    /\ serialOut' = << >>
    /\ UNCHANGED <<now, lines, m_touchController, m_sensors, m_lastPollTime,
                   logVars, sampleVars, hostLine, hostSent>>

\* commandController.tick(), once processCompletedLines has returned
CommandTick ==
    /\ pc \in {"serial", "tick"}
    /\ pc' = "touch"
    /\ \E S \in {tick(WorkState)} : SetWork(S)
    /\ lastOp' = [op |-> "tick", cmd |-> NoCommand, arg |-> 0]
    /\ serialOut' = << >>
    /\ UNCHANGED <<now, lines, m_touchController, m_sensors, m_lastPollTime,
                   logVars, sampleVars, pendingVars, rxVars, lineVars, hostVars>>

isTouchEvent(e, i, down) ==
    /\ e.position = indexToLetter(i)
    /\ e.type \in (IF down THEN {"TOUCH_DOWN", "TOUCHED_DOWN"}
                   ELSE {"TOUCH_UP", "TOUCHED_UP"})

countEvents(events, i, down) ==
    Cardinality({k \in DOMAIN events : isTouchEvent(events[k], i, down)})

\* touchController.tick(); reading[i] is what readRawTouch returns for sensor i
TouchTick(reading) ==
    /\ pc = "touch"
    /\ pc' = "led"
    /\ lastOp' = [op |-> "touchTick", cmd |-> NoCommand, arg |-> 0]
    /\ serialOut' = << >>
    /\ calWrites' = << >>
    /\ IF pollDue(now, m_lastPollTime)
       THEN \E polled \in {pollSensors(m_sensors, reading, now)} :
            \E r \in {processDebounce(polled, m_expectDown, m_expectUp, now)} :
            \E changed \in {[i \in Sensors |->
                               m_sensors[i].active /\ reading[i] # sampleVal[i]]} :
            \E val \in {[i \in Sensors |->
                               IF changed[i] THEN reading[i] ELSE sampleVal[i]]} :
                /\ m_lastPollTime' = now
                /\ m_sensors' = r.sensors
                /\ m_expectDown' = r.expectDown
                /\ m_expectUp' = r.expectUp
                /\ offered' = r.events
                /\ SetEQ(enqueueAll(EQ, r.events))
                \* the run of equal readings each active sensor is in: its value,
                \* when it began, the debounced state it began from, and the
                \* events of its direction queued during it
                /\ sampleVal' = val
                /\ sampleSince' = [i \in Sensors |->
                       IF changed[i] THEN now ELSE sampleSince[i]]
                /\ sampleBase' = [i \in Sensors |->
                       IF changed[i] THEN m_sensors[i].debouncedTouched
                       ELSE sampleBase[i]]
                /\ sampleEvents' = [i \in Sensors |->
                       (IF changed[i] THEN 0 ELSE sampleEvents[i])
                       + countEvents(r.events, i, val[i])]
                /\ pendingDown' = answered(pendingDown, r.events, "TOUCHED_DOWN")
                /\ pendingUp' = answered(pendingUp, r.events, "TOUCHED_UP")
       ELSE /\ offered' = << >>
            /\ UNCHANGED <<touchVars, eqVars, sampleVars, pendingVars>>
    /\ UNCHANGED <<now, lines, cmdVars, ledVars, logVars, rxVars, lineVars, hostVars>>

\* ledController.tick()
LedTick ==
    /\ pc = "led"
    /\ pc' = "flush"
    /\ \E r \in {update(LED, now)} :
           /\ SetLED(r.L)
           \* arg is the number of times the strips were shown
           /\ lastOp' = [op |-> "ledTick", cmd |-> NoCommand, arg |-> r.shows]
    /\ offered' = << >>
    /\ serialOut' = << >>
    /\ calWrites' = << >>
    /\ UNCHANGED <<now, lines, eqVars, cmdVars, touchVars, logVars,
                   sampleVars, pendingVars, rxVars, lineVars, hostVars>>

\* eventQueue.flush(3)
LoopFlush ==
    /\ pc = "flush"
    /\ pc' = "serial"
    /\ \E r \in {flush(EQ, LOOP_FLUSH)} :
           /\ SetEQ(r.q)
           /\ serialOut' = r.out
    /\ lastOp' = [op |-> "flush", cmd |-> NoCommand, arg |-> LOOP_FLUSH]
    /\ offered' = << >>
    /\ calWrites' = << >>
    /\ UNCHANGED <<now, lines, cmdVars, ledVars, touchVars, logVars,
                   sampleVars, pendingVars, rxVars, lineVars, hostVars>>

\* d milliseconds pass before the next iteration of loop()
Advance(d, maxTime) ==
    /\ pc = "serial"
    /\ now + d <= maxTime
    /\ now' = now + d
    /\ lastOp' = [op |-> "advance", cmd |-> NoCommand, arg |-> 0]
    /\ offered' = << >>
    /\ serialOut' = << >>
    /\ calWrites' = << >>
    /\ UNCHANGED <<pc, lines, eqVars, cmdVars, ledVars, touchVars, logVars,
                   sampleVars, pendingVars, rxVars, lineVars, hostVars>>

NoTouch == [i \in Sensors |-> FALSE]

(***************************************************************************)
(* SpecEQ: the event queue under its callers.  The n-th enqueue call       *)
(* carries the id n, so that the order of the lines written is visible.    *)
(***************************************************************************)
SampleEvent(n) ==
    CASE n % 3 = 0 -> queueAck(S_PING, "", n)
      [] n % 3 = 1 -> queueDone(S_SUCCESS, "A", n)
      [] OTHER -> queueError(S_busy, n)

\* the lines sendEvent writes for a sequence of events
rendered(events) == [k \in DOMAIN events |-> sendEvent(events[k])]

\* one queueXxx call of the loop body; lastOp.arg is what enqueue returned
Enqueue ==
    /\ enqCalls < MaxEnq
    /\ enqCalls' = enqCalls + 1
    /\ LET event == SampleEvent(enqCalls + 1)
       IN  /\ SetEQ(enqueue(EQ, event))
           /\ offered' = <<event>>
           /\ enqLog' = enqLog \o rendered(acceptedOf(EQ, <<event>>))
           /\ lastOp' = [op |-> "enqueue", cmd |-> NoCommand,
                         arg |-> IF enqueueResult(EQ, event) THEN 1 ELSE 0]
    /\ serialOut' = << >>
    /\ UNCHANGED <<now, pc, lines, cmdVars, ledVars, touchVars, calWrites, outLog,
                   sampleVars, pendingVars, rxVars, lineVars, hostVars>>

\* flush(maxEvents), as setup() and loop() call it
Flush(maxEvents) ==
    /\ \E r \in {flush(EQ, maxEvents)} :
           /\ SetEQ(r.q)
           /\ serialOut' = r.out
           /\ outLog' = outLog \o r.out
    /\ lastOp' = [op |-> "flush", cmd |-> NoCommand, arg |-> maxEvents]
    /\ offered' = << >>
    /\ UNCHANGED <<now, pc, lines, cmdVars, ledVars, touchVars, calWrites,
                   enqCalls, enqLog, sampleVars, pendingVars, rxVars, lineVars,
                   hostVars>>

InitEQ == InitWith({TRUE})

NextEQ ==
    \/ Enqueue
    \/ \E maxEvents \in 0..MaxFlush : Flush(maxEvents)

SpecEQ == InitEQ /\ [][NextEQ]_vars

\* the accepted events not yet written, oldest first
Pending == SubSeq(enqLog, Len(outLog) + 1, Len(enqLog))

\* C8: the lines written are, in order, the events enqueue accepted: at every
\* moment the output is a prefix of the accepted sequence, and the events
\* still queued are exactly the rest of it.
C8_FifoOrder ==
    /\ Len(outLog) <= Len(enqLog)
    /\ outLog = SubSeq(enqLog, 1, Len(outLog))
    /\ m_count = Len(enqLog) - Len(outLog)
    /\ \A k \in 1..m_count :
           /\ m_queue[(m_tail + k - 1) % EVENT_QUEUE_SIZE].valid
           /\ sendEvent(m_queue[(m_tail + k - 1) % EVENT_QUEUE_SIZE]) = Pending[k]

\* the ring has wrapped and the output has followed it
C8_Witness ==
    /\ Len(outLog) >= 3
    /\ m_count >= 2
    /\ m_head < m_tail

\* C9: an enqueue on a queue that holds EVENT_QUEUE_SIZE events returns false
\* and leaves the slots, head, tail and count as they were; the event is not
\* accepted and no line is written for it; the count never exceeds
\* EVENT_QUEUE_SIZE.
C9_FullRejects ==
    [][/\ (lastOp'.op = "enqueue" /\ m_count = EVENT_QUEUE_SIZE)
          => /\ lastOp'.arg = 0
             /\ eqVars' = eqVars
             /\ enqLog' = enqLog
             /\ outLog' = outLog
       /\ m_count' <= EVENT_QUEUE_SIZE]_vars

C9_Witness ==
    /\ lastOp.op = "enqueue"
    /\ lastOp.arg = 0
    /\ m_count = EVENT_QUEUE_SIZE
    /\ enqCalls > Len(enqLog) - 1

\* the lines of the events in the queue, from the tail
queued(q) ==
    [k \in 1..q.count |-> sendEvent(q.queue[(q.tail + k - 1) % EVENT_QUEUE_SIZE])]

\* C10: flush(maxEvents) writes exactly min(maxEvents, count) lines, those of
\* the events at the front of the queue in their order, and leaves the others
\* queued in their order; the loop's flush passes 3 and so writes at most
\* three lines.
C10_FlushBound ==
    [][lastOp'.op = "flush"
          => /\ Len(serialOut') = Min(lastOp'.arg, m_count)
             /\ serialOut' = SubSeq(queued(EQ), 1, Min(lastOp'.arg, m_count))
             /\ queued(EQ)' = SubSeq(queued(EQ), Min(lastOp'.arg, m_count) + 1,
                                     m_count)
             /\ m_count' = m_count - Min(lastOp'.arg, m_count)
             /\ (lastOp'.arg = LOOP_FLUSH => Len(serialOut') <= 3)]_vars

\* a flush that stopped at its bound with events left, and one that emptied a
\* shorter queue, are both reached
C10_Witness ==
    /\ lastOp.op = "flush"
    /\ lastOp.arg = LOOP_FLUSH
    /\ Len(serialOut) = LOOP_FLUSH
    /\ m_count > 0

(***************************************************************************)
(* SpecAnim: loop() with the host sending SUCCESS and HIDE for position A; *)
(* no finger touches a sensor.                                             *)
(***************************************************************************)
\* "SUCCESS A #1" and "HIDE A #2"
AnimLines == {Command("SUCCESS", 0, TRUE, 1), Command("HIDE", 0, TRUE, 2)}

AnimTimeSteps == {40}

InitAnim == InitWith({TRUE})

NextAnim ==
    \/ \E cmd \in AnimLines : lines < MaxLinesAnim /\ ExecuteCommand(cmd, TRUE)
    \/ CommandTick
    \/ TouchTick(NoTouch)
    \/ LedTick
    \/ LoopFlush
    \/ \E d \in AnimTimeSteps : Advance(d, SETUP_DELAY_MS + MaxTimeAnim)

SpecAnim == InitAnim /\ [][NextAnim]_vars

\* the DONE SUCCESS events among a handler's enqueue calls
doneSuccess(events) ==
    {k \in DOMAIN events : events[k].type = "DONE" /\ events[k].action = S_SUCCESS}

\* the slots that hold a SUCCESS command
successSlots(cq) ==
    {k \in DOMAIN cq : cq[k].active /\ cq[k].command.action = "SUCCESS"}

\* a SUCCESS that finds a free slot: one ACK with the command's position and
\* id, the position Animating at step 0, the command in a slot that was free
C1_Admission ==
    (/\ lastOp'.op = "executeCommand"
     /\ lastOp'.cmd.action = "SUCCESS"
     /\ \E k \in DOMAIN m_commandQueue : ~m_commandQueue[k].active)
    => /\ offered' = <<[type |-> "ACK", action |-> S_SUCCESS,
                        position |-> lastOp'.cmd.position,
                        commandId |-> lastOp'.cmd.id, extra |-> << >>,
                        valid |-> TRUE]>>
       /\ m_positions'[lastOp'.cmd.positionIndex].state = "ANIMATING"
       /\ m_positions'[lastOp'.cmd.positionIndex].animationStep = 0
       /\ \E k \in DOMAIN m_commandQueue :
              /\ ~m_commandQueue[k].active
              /\ m_commandQueue'[k].active
              /\ m_commandQueue'[k].command = lastOp'.cmd

\* the dispatcher's tick answers a SUCCESS slot exactly when its position is
\* not Animating; a position it finds Expanded has taken all five steps, and
\* five step intervals have passed since the command was admitted
C1_TickDone ==
    lastOp'.op = "tick"
    => /\ \A k \in successSlots(m_commandQueue) :
              LET qc == m_commandQueue[k]
                  p == m_positions[qc.command.positionIndex]
              IN  IF p.state # "ANIMATING"
                  THEN /\ ~m_commandQueue'[k].active
                       /\ \E j \in doneSuccess(offered') :
                              /\ offered'[j].position = qc.command.position
                              /\ offered'[j].commandId = qc.command.id
                       /\ p.state = "EXPANDED"
                            => /\ p.animationStep = SUCCESS_EXPANSION_RADIUS
                               /\ now - qc.startTime
                                    >= SUCCESS_EXPANSION_RADIUS * ANIMATION_STEP_MS
                  ELSE m_commandQueue'[k] = qc
       /\ Cardinality(doneSuccess(offered')) =
              Cardinality({k \in successSlots(m_commandQueue) :
                  m_positions[m_commandQueue[k].command.positionIndex].state
                      # "ANIMATING"})

\* the LED tick advances an Animating position by one step, and only when
\* ANIMATION_STEP_MS have passed since its last step; the fifth step makes it
\* Expanded
C1_StepGate ==
    (lastOp'.op = "ledTick" /\ ~m_sequenceAnimActive)
    => \A i \in Positions :
           m_positions[i].state = "ANIMATING"
           => IF now - m_positions[i].lastAnimationTime >= ANIMATION_STEP_MS
              THEN /\ m_positions'[i].animationStep = m_positions[i].animationStep + 1
                   /\ m_positions'[i].lastAnimationTime = now
                   /\ m_positions'[i].state =
                          IF m_positions'[i].animationStep = SUCCESS_EXPANSION_RADIUS
                          THEN "EXPANDED" ELSE "ANIMATING"
              ELSE m_positions'[i] = m_positions[i]

\* C1 (as the code has it): a SUCCESS that finds a free slot is acknowledged at
\* once and starts the animation at step 0; DONE SUCCESS is queued only by a
\* dispatcher tick, once for each SUCCESS slot whose position is then not
\* Animating.  The position is Expanded only after five steps, each at least
\* ANIMATION_STEP_MS after the one before; a HIDE of the position in between
\* ends the wait with fewer steps.
C1_SuccessAckThenDone ==
    [][/\ C1_Admission
       /\ \A k \in DOMAIN offered' : offered'[k].type = "DONE" => lastOp'.op = "tick"
       /\ C1_TickDone
       /\ C1_StepGate]_vars

\* a DONE SUCCESS queued for a position that took its five steps
C1_Witness ==
    /\ lastOp.op = "tick"
    /\ doneSuccess(offered) # {}
    /\ m_positions[0].state = "EXPANDED"
    /\ m_positions[0].animationStep = SUCCESS_EXPANSION_RADIUS

\* C1 (as the specification has it): DONE SUCCESS is queued only after the
\* position's animation has advanced exactly five steps.
C1_DoneAfterFiveSteps ==
    (lastOp.op = "tick" /\ doneSuccess(offered) # {})
    => \A j \in doneSuccess(offered) :
           \E i \in Positions :
               /\ Letters[i + 1] = offered[j].position
               /\ m_positions[i].state = "EXPANDED"
               /\ m_positions[i].animationStep = SUCCESS_EXPANSION_RADIUS

(***************************************************************************)
(* SpecDispatch: loop() with the host sending RECALIBRATE_ALL, SCAN and    *)
(* PING, the CommandController built with or without a TouchController.    *)
(***************************************************************************)
\* "RECALIBRATE_ALL #3", "SCAN #5", and a PING whose id is the value the
\* firmware uses for "no id"
DispatchLines ==
    {Command("RECALIBRATE_ALL", 255, TRUE, 3),
     Command("SCAN", 255, TRUE, 5),
     Command("PING", 255, TRUE, NO_COMMAND_ID)}

DispatchTimeSteps == {10}

InitDispatch == InitWith(BOOLEAN)

NextDispatch ==
    \/ \E cmd \in DispatchLines :
           lines < MaxLinesDispatch /\ ExecuteCommand(cmd, TRUE)
    \/ CommandTick
    \/ TouchTick(NoTouch)
    \/ LedTick
    \/ LoopFlush
    \/ \E d \in DispatchTimeSteps : Advance(d, SETUP_DELAY_MS + MaxTimeDispatch)

SpecDispatch == InitDispatch /\ [][NextDispatch]_vars

\* the slots that hold a RECALIBRATE_ALL command
recalibrateAllSlots(cq) ==
    {k \in DOMAIN cq : cq[k].active /\ cq[k].command.action = "RECALIBRATE_ALL"}

\* the RECALIBRATED events for all sensors among a handler's enqueue calls
recalibratedAll(events, id) ==
    {j \in DOMAIN events : /\ events[j].type = "RECALIBRATED"
                           /\ events[j].position = ""
                           /\ events[j].commandId = id}

\* C7: with a touch controller, a RECALIBRATE_ALL is admitted with its cursor
\* at 0; each dispatcher tick moves the cursor of each such slot on by exactly
\* 5 and writes the calibration register of no sensor outside the 5 it passed;
\* the tick that takes the cursor from 20 to 25, the fifth, queues RECALIBRATED
\* for all sensors with the command's id and frees the slot, and no earlier
\* tick does either.
C7_RecalibrateAllChunks ==
    [][m_touchController
         => /\ (lastOp'.op = "executeCommand"
                  /\ lastOp'.cmd.action = "RECALIBRATE_ALL"
                  /\ \E k \in DOMAIN m_commandQueue : ~m_commandQueue[k].active)
               => \E k \in recalibrateAllSlots(m_commandQueue') :
                      /\ ~m_commandQueue[k].active
                      /\ m_commandQueue'[k].scanAddress = 0
                      /\ m_commandQueue'[k].command = lastOp'.cmd
                      /\ calWrites' = << >>
            /\ lastOp'.op = "tick"
               => /\ \A k \in recalibrateAllSlots(m_commandQueue) :
                      LET qc == m_commandQueue[k]
                          last == qc.scanAddress = NUM_TOUCH_SENSORS - SENSORS_PER_TICK
                      IN  /\ qc.scanAddress \in {0, 5, 10, 15, 20}
                          /\ m_commandQueue'[k].scanAddress
                                = qc.scanAddress + SENSORS_PER_TICK
                          /\ m_commandQueue'[k].active = ~last
                          /\ last => recalibratedAll(offered', qc.command.id) # {}
                  /\ Len(calWrites') <= SENSORS_PER_TICK
                         * Cardinality(recalibrateAllSlots(m_commandQueue))
                  /\ \A j \in DOMAIN calWrites' :
                         \E k \in recalibrateAllSlots(m_commandQueue) :
                             /\ calWrites'[j] >= m_commandQueue[k].scanAddress
                             /\ calWrites'[j] < m_commandQueue[k].scanAddress
                                                 + SENSORS_PER_TICK
                  /\ Cardinality({j \in DOMAIN offered' :
                                      offered'[j].type = "RECALIBRATED"})
                        = Cardinality({k \in recalibrateAllSlots(m_commandQueue) :
                              m_commandQueue[k].scanAddress
                                  = NUM_TOUCH_SENSORS - SENSORS_PER_TICK})]_vars

\* the fifth tick of a RECALIBRATE_ALL while a later one is mid-way
C7_Witness ==
    /\ m_touchController
    /\ lastOp.op = "tick"
    /\ recalibratedAll(offered, 3) # {}
    /\ \E k \in DOMAIN m_commandQueue :
           /\ ~m_commandQueue[k].active
           /\ m_commandQueue[k].command.action = "RECALIBRATE_ALL"
           /\ m_commandQueue[k].scanAddress = NUM_TOUCH_SENSORS
    /\ \E k \in recalibrateAllSlots(m_commandQueue) :
           m_commandQueue[k].scanAddress \in {5, 10, 15, 20}
    /\ Len(calWrites) > SENSORS_PER_TICK

\* C3: without a touch controller, a SCAN or RECALIBRATE_ALL that finds a free
\* slot is answered by exactly one event, ERR no_touch_controller with the
\* command's id, and no slot stays taken.
C3_NoTouchOneError ==
    (/\ ~m_touchController
     /\ lastOp.op = "executeCommand"
     /\ lastOp.cmd.action \in {"SCAN", "RECALIBRATE_ALL"}
     /\ \E k \in DOMAIN m_commandQueue : ~m_commandQueue[k].active)
    => /\ offered = <<queueError(S_no_touch_controller, lastOp.cmd.id)>>
       /\ \A k \in DOMAIN m_commandQueue : ~m_commandQueue[k].active

\* C4: the events a command with an id causes are written with that id.
C4_IdEchoed ==
    (lastOp.op = "executeCommand" /\ lastOp.cmd.hasId)
    => \A j \in DOMAIN offered :
           /\ sendEvent(offered[j]).hasId
           /\ sendEvent(offered[j]).id = lastOp.cmd.id

(***************************************************************************)
(* SpecBusy: loop() with the host filling the command slots: it sends      *)
(* SUCCESS while a slot is free, and any long-running command once all     *)
(* slots are taken.                                                        *)
(***************************************************************************)
LongRunningLines ==
    {Command("SUCCESS", 0, TRUE, 1),
     Command("SCAN", 255, TRUE, 2),
     Command("RECALIBRATE_ALL", 255, TRUE, 3),
     Command("SEQUENCE_COMPLETED", 255, TRUE, 4)}

BusyLines ==
    IF \A k \in DOMAIN m_commandQueue : m_commandQueue[k].active
    THEN LongRunningLines
    ELSE {Command("SUCCESS", 0, TRUE, 1)}

BusyTimeSteps == {80}

InitBusy == InitWith({TRUE})

NextBusy ==
    \/ \E cmd \in BusyLines : lines < MaxLinesBusy /\ ExecuteCommand(cmd, TRUE)
    \/ CommandTick
    \/ TouchTick(NoTouch)
    \/ LedTick
    \/ LoopFlush
    \/ \E d \in BusyTimeSteps : Advance(d, SETUP_DELAY_MS + MaxTimeBusy)

SpecBusy == InitBusy /\ [][NextBusy]_vars

activeSlots(cq) == {k \in DOMAIN cq : cq[k].active}

\* C2: a long-running command dispatched while all COMMAND_QUEUE_SIZE slots
\* are active makes exactly one enqueue call, ERR busy with the command's id,
\* so no ACK; the slots, the LEDs and the touch controller stay as they were;
\* and at no time are more than COMMAND_QUEUE_SIZE slots active.
C2_BusyRejects ==
    [][/\ (/\ lastOp'.op = "executeCommand"
           /\ lastOp'.cmd.action \in {"SUCCESS", "SCAN", "RECALIBRATE_ALL",
                                      "SEQUENCE_COMPLETED"}
           /\ Cardinality(activeSlots(m_commandQueue)) = COMMAND_QUEUE_SIZE)
          => /\ offered' = <<[type |-> "ERR", action |-> << >>, position |-> "",
                              commandId |-> lastOp'.cmd.id, extra |-> S_busy,
                              valid |-> TRUE]>>
             /\ m_commandQueue' = m_commandQueue
             /\ ledVars' = ledVars
             /\ touchVars' = touchVars
             /\ calWrites' = << >>
       /\ DOMAIN m_commandQueue' = 0..(COMMAND_QUEUE_SIZE - 1)
       /\ Cardinality(activeSlots(m_commandQueue')) <= COMMAND_QUEUE_SIZE]_vars

\* a SEQUENCE_COMPLETED refused with all slots taken, no celebration started
C2_Witness ==
    /\ lastOp.op = "executeCommand"
    /\ lastOp.cmd.action = "SEQUENCE_COMPLETED"
    /\ Cardinality(activeSlots(m_commandQueue)) = COMMAND_QUEUE_SIZE
    /\ Len(offered) = 1
    /\ offered[1].type = "ERR"
    /\ offered[1].extra = S_busy
    /\ offered[1].commandId = 4
    /\ ~m_sequenceAnimActive

(***************************************************************************)
(* SpecTouch: loop() with a finger on and off the sensor A, the host       *)
(* sending EXPECT_DOWN and EXPECT_UP for A.                                *)
(***************************************************************************)
\* "EXPECT_DOWN A #6" and "EXPECT_UP A #7"
TouchLines == {Command("EXPECT_DOWN", 0, TRUE, 6), Command("EXPECT_UP", 0, TRUE, 7)}

\* what readRawTouch returns in one poll: nothing touched, or A
TouchReadings == {NoTouch, [NoTouch EXCEPT ![0] = TRUE]}

TouchTimeSteps == {10}

InitTouch == InitWith({TRUE})

NextTouch ==
    \/ \E cmd \in TouchLines : lines < MaxLinesTouch /\ ExecuteCommand(cmd, TRUE)
    \/ CommandTick
    \/ \E reading \in TouchReadings : TouchTick(reading)
    \/ LedTick
    \/ LoopFlush
    \/ \E d \in TouchTimeSteps : Advance(d, SETUP_DELAY_MS + MaxTimeTouch)

SpecTouch == InitTouch /\ [][NextTouch]_vars

\* the events a touch tick queued for sensor i
touchEvents(events, i) ==
    {k \in DOMAIN events : /\ events[k].position = indexToLetter(i)
                           /\ events[k].type \in {"TOUCH_DOWN", "TOUCHED_DOWN",
                                                  "TOUCH_UP", "TOUCHED_UP"}}

\* how long sensor i's current run of equal readings had lasted at the last poll
heldFor(i) == m_lastPollTime - sampleSince[i]

\* C5: for every active sensor, a press being a run of touched raw readings
\* that begins while the debounced state is released, and a release a run of
\* released readings that begins while it is touched: while the run has lasted
\* less than DEBOUNCE_MS no event has been queued for it, so a run that reverts
\* before then leaves none; once it has lasted DEBOUNCE_MS exactly one event
\* has been queued for it, a down event for a press and an up event for a
\* release.  A run that begins in the debounced state it has queues nothing,
\* no event of the other direction is queued during a run, and a sensor that
\* is not active gets no event at all.
C5_Debounce ==
    \A i \in Sensors :
        IF m_sensors[i].active
        THEN /\ sampleEvents[i] <= 1
             /\ heldFor(i) < DEBOUNCE_MS => sampleEvents[i] = 0
             /\ sampleVal[i] = sampleBase[i] => sampleEvents[i] = 0
             /\ (heldFor(i) >= DEBOUNCE_MS /\ sampleVal[i] # sampleBase[i])
                    => sampleEvents[i] = 1
             /\ lastOp.op = "touchTick"
                    => \A k \in touchEvents(offered, i) :
                           isTouchEvent(offered[k], i, sampleVal[i])
        ELSE /\ sampleEvents[i] = 0
             /\ lastOp.op = "touchTick" => touchEvents(offered, i) = {}

\* a press of A held for DEBOUNCE_MS, its one event queued, two polls on
C5_Witness ==
    /\ m_sensors[0].active
    /\ lastOp.op = "touchTick"
    /\ sampleVal[0]
    /\ heldFor(0) >= DEBOUNCE_MS + 2 * TOUCH_POLL_INTERVAL_MS
    /\ sampleEvents[0] = 1
    /\ offered = << >>

\* C6: a TOUCHED_DOWN is queued for a sensor only while an EXPECT_DOWN for it
\* waits for its answer, carries that command's id and ends the wait; a down
\* event for a sensor with no EXPECT_DOWN waiting is the spontaneous
\* TOUCH_DOWN; so one EXPECT_DOWN is answered at most once.  The same holds
\* for EXPECT_UP, TOUCHED_UP and TOUCH_UP.
C6_OneShot ==
    [][lastOp'.op = "touchTick"
         => \A i \in Sensors : \A k \in touchEvents(offered', i) :
                LET e == offered'[k]
                IN  /\ e.type = "TOUCHED_DOWN"
                         => /\ pendingDown[i].armed
                            /\ e.commandId = pendingDown[i].id
                            /\ ~pendingDown'[i].armed
                            /\ ~m_expectDown'[i].active
                    /\ e.type = "TOUCH_DOWN" => ~pendingDown[i].armed
                    /\ e.type = "TOUCHED_UP"
                         => /\ pendingUp[i].armed
                            /\ e.commandId = pendingUp[i].id
                            /\ ~pendingUp'[i].armed
                            /\ ~m_expectUp'[i].active
                    /\ e.type = "TOUCH_UP" => ~pendingUp[i].armed
                    /\ \A j \in touchEvents(offered', i) : j = k]_vars

\* the second press of A after an EXPECT_DOWN A was answered: a TOUCH_DOWN
C6_Witness ==
    /\ lastOp.op = "touchTick"
    /\ pendingDown[0].answered = 1
    /\ ~pendingDown[0].armed
    /\ \E k \in DOMAIN offered : /\ offered[k].type = "TOUCH_DOWN"
                                 /\ offered[k].position = "A"

\* the step changes the debounced state of the active sensor i
transitioned(i) ==
    /\ m_sensors[i].active
    /\ m_sensors'[i].debouncedTouched # m_sensors[i].debouncedTouched

\* the one event of a transition of sensor i in one direction: TOUCHED with
\* the id of that direction's expectation, which is disarmed, if it is armed,
\* and the spontaneous event without an id if not
transitionEvent(i, e, expect, expectNew, touched, spontaneous) ==
    IF expect[i].active
    THEN /\ e.type = touched
         /\ e.commandId = expect[i].commandId
         /\ ~expectNew[i].active
    ELSE /\ e.type = spontaneous
         /\ e.commandId = NO_COMMAND_ID
         /\ expectNew[i] = expect[i]

\* C24: in a touch tick, a sensor whose debounced state changes gets exactly
\* one event, with its letter: on a change to touched, TOUCHED_DOWN with the
\* id of the DOWN expectation, which is disarmed, if that is armed, and
\* TOUCH_DOWN without an id if not, the UP expectation being left as it was
\* whatever it is; on a change to released the same with UP and DOWN
\* exchanged.  A sensor whose debounced state does not change gets no event
\* and keeps both expectations.
C24_TransitionEvent ==
    [][lastOp'.op = "touchTick"
         => \A i \in Sensors :
                IF transitioned(i)
                THEN /\ Cardinality(touchEvents(offered', i)) = 1
                     /\ \A k \in touchEvents(offered', i) :
                            IF m_sensors'[i].debouncedTouched
                            THEN /\ transitionEvent(i, offered'[k], m_expectDown,
                                                    m_expectDown', "TOUCHED_DOWN",
                                                    "TOUCH_DOWN")
                                 /\ m_expectUp'[i] = m_expectUp[i]
                            ELSE /\ transitionEvent(i, offered'[k], m_expectUp,
                                                    m_expectUp', "TOUCHED_UP",
                                                    "TOUCH_UP")
                                 /\ m_expectDown'[i] = m_expectDown[i]
                ELSE /\ touchEvents(offered', i) = {}
                     /\ m_expectDown'[i] = m_expectDown[i]
                     /\ m_expectUp'[i] = m_expectUp[i]]_vars

\* a press of A with only EXPECT_UP A #7 waiting: TOUCH_DOWN A without an id,
\* the UP expectation still armed
C24_Witness ==
    /\ lastOp.op = "touchTick"
    /\ m_sensors[0].debouncedTouched
    /\ offered = <<queueTouchDown("A")>>
    /\ m_expectUp[0] = [active |-> TRUE, commandId |-> 7]
    /\ ~m_expectDown[0].active

(***************************************************************************)
(* SpecParse: loop() with the host sending one line per pollSerial, well   *)
(* formed or not.  A line is what the host meant to send: an action word,  *)
(* then up to MaxArgsParse tokens, each with the kind the host gave it.    *)
(***************************************************************************)
\* the action words: text on the wire and, if it is one of the 13 actions,
\* its name
ParseActionWords ==
    {[text |-> S_SHOW, known |-> TRUE, name |-> "SHOW"],
     [text |-> <<"h","i","d","e">>, known |-> TRUE, name |-> "HIDE"],
     [text |-> <<"P","i","n","g">>, known |-> TRUE, name |-> "PING"],
     [text |-> <<"F","O","O">>, known |-> FALSE, name |-> "INVALID"]}

\* the tokens after the action: a position letter, a single character that is
\* no position, an id, a "#" without digits, a word
ParseArgWords ==
    {[text |-> <<"y">>, kind |-> "position", index |-> 24, id |-> 0],
     [text |-> <<"Z">>, kind |-> "character", index |-> 255, id |-> 0],
     [text |-> <<"#","7">>, kind |-> "id", index |-> 255, id |-> 7],
     [text |-> <<"#">>, kind |-> "hash", index |-> 255, id |-> 0],
     [text |-> <<"A","B">>, kind |-> "word", index |-> 255, id |-> 0]}

\* the lines: any action word with any tokens; the "PI>" prefix on those
\* without tokens
ParseLines ==
    {l \in [prefix : BOOLEAN, action : ParseActionWords,
            args : UNION {[1..n -> ParseArgWords] : n \in 0..MaxArgsParse}] :
        l.prefix => l.args = << >>}

RECURSIVE joinArgs(_)
joinArgs(args) ==
    IF args = << >> THEN << >>
    ELSE <<" ">> \o Head(args).text \o joinArgs(Tail(args))

\* the bytes of a line on the wire
bytesOf(l) ==
    (IF l.prefix THEN S_PI \o <<" ">> ELSE << >>)
    \o l.action.text \o joinArgs(l.args) \o <<"\n">>

\* the text of each line, as the firmware is to find it in m_lineBuffer
ParseText == [l \in ParseLines |-> textOf(bytesOf(l))]

\* a touch controller whose sensors all initialised
InitParse == InitWith({TRUE}) /\ \A i \in Sensors : m_sensors[i].active

NextParse ==
    \/ \E l \in ParseLines : PollSerial(bytesOf(l), MaxLinesParse, MAX_LINE_LEN)
    \/ ProcessCompletedLines(TRUE)
    \/ CommandTick
    \/ TouchTick(NoTouch)
    \/ LedTick
    \/ LoopFlush

SpecParse == InitParse /\ [][NextParse]_vars

\* the first token of args that is neither a position nor an id, 0 if none
firstMalformed(args) ==
    LET bad == {k \in DOMAIN args : args[k].kind \notin {"position", "id"}}
    IN  IF bad = {} THEN 0 ELSE CHOOSE k \in bad : \A j \in bad : k <= j

\* the actions that need a position
PositionActions == {"SHOW", "HIDE", "SUCCESS", "BLINK", "STOP_BLINK",
                    "EXPECT_DOWN", "EXPECT_UP", "RECALIBRATE"}

\* the step is processCompletedLines answering the line l just received with
\* one ERR of that reason and executing nothing
Rejected(reason) ==
    /\ lastOp'.arg = 0
    /\ Len(offered') = 1
    /\ offered'[1].type = "ERR"
    /\ offered'[1].extra = reason
    /\ UNCHANGED <<cmdVars, ledVars, touchVars>>

\* processCompletedLines handling the one line the last pollSerial received
ParseStep ==
    /\ lastOp.op = "pollSerial"
    /\ lastOp'.op = "processCompletedLines"

failurePoint(l) ==
    IF ~l.action.known THEN 0
    ELSE IF firstMalformed(l.args) # 0 THEN firstMalformed(l.args)
    ELSE Len(l.args) + 1

\* the id tokens of l before the failure point
idsBefore(l) ==
    {k \in DOMAIN l.args : k < failurePoint(l) /\ l.args[k].kind = "id"}

\* C12: every failed parse enqueues exactly one ERR event and changes nothing
\* else; the ERR carries the id of the last #<digits> token parsed before the
\* failure point, and no id only if there was none.
C12_FailedParseOneError ==
    [][(ParseStep /\ lastOp'.arg = 0) =>
        \A l \in ParseLines :
            hostLine = ParseText[l] =>
                /\ Len(offered') = 1
                /\ offered'[1].type = "ERR"
                /\ UNCHANGED <<cmdVars, ledVars, touchVars>>
                /\ IF idsBefore(l) = {}
                   THEN offered'[1].commandId = NO_COMMAND_ID
                   ELSE offered'[1].commandId =
                            l.args[CHOOSE k \in idsBefore(l) :
                                       \A j \in idsBefore(l) : j <= k].id]_vars
(***************************************************************************)
(* SpecLed: loop() with the host sending LED commands for position A and   *)
(* starting the celebration animation.                                     *)
(***************************************************************************)
\* "SHOW A #1", "HIDE A #2", "SUCCESS A #3", "BLINK A #4",
\* "SEQUENCE_COMPLETED #5"
LedLines ==
    {Command("SHOW", 0, TRUE, 1),
     Command("HIDE", 0, TRUE, 2),
     Command("SUCCESS", 0, TRUE, 3),
     Command("BLINK", 0, TRUE, 4),
     Command("SEQUENCE_COMPLETED", 255, TRUE, 5)}

LedTimeSteps == {80}

InitLed == InitWith({TRUE}) /\ \A i \in Sensors : m_sensors[i].active

NextLed ==
    \/ \E cmd \in LedLines : lines < MaxLinesLed /\ ExecuteCommand(cmd, TRUE)
    \/ CommandTick
    \/ TouchTick(NoTouch)
    \/ LedTick
    \/ LoopFlush
    \/ \E d \in LedTimeSteps : Advance(d, SETUP_DELAY_MS + MaxTimeLed)

SpecLed == InitLed /\ [][NextLed]_vars

\* the pixel buffer of a strip
stripOf(L, strip) == IF strip = "STRIP1" THEN L.strip1 ELSE L.strip2

\* every pixel of a position, its center and its expansion region, is off
pixelsOff(L, position) ==
    \A idx \in regionOf(getMapping(position)) :
        getPixelColor(stripOf(L, getMapping(position).strip), idx) = COLOR_OFF

\* a position is Idle and dark
idleAndDark(L, position) ==
    /\ L.positions[position].state = "OFF"
    /\ pixelsOff(L, position)

\* the steps that write the LED controller's state: every state it takes is
\* there after one of them
ledChanged == lastOp.op \in {"setup", "executeCommand", "tick", "ledTick"}

\* the event queue's slot written k calls ago
lastEnqueued(k) == m_queue[(m_head + EVENT_QUEUE_SIZE - k) % EVENT_QUEUE_SIZE]

\* C13: for every position 0..24 and whatever state the LED controller has
\* got to, show(pos) followed by hide(pos) leaves the position OFF with every
\* pixel of its center and expansion region off; and whenever the host's
\* SHOW pos is followed by HIDE pos, the position is OFF and dark after the
\* HIDE.
C13_ShowThenHide ==
    /\ [](ledChanged => \A L \in {LED} : \A p \in Positions :
            \A shown \in {show(L, p)} : \A hidden \in {hide(shown.L, p)} :
                /\ shown.ok
                /\ hidden.ok
                /\ idleAndDark(hidden.L, p))
    /\ [][( /\ lastOp.op = "executeCommand"
            /\ lastOp.cmd.action = "SHOW"
            /\ lastOp'.op = "executeCommand"
            /\ lastOp'.cmd.action = "HIDE"
            /\ lastOp'.cmd.positionIndex = lastOp.cmd.positionIndex )
          => \A L \in {LED'} : idleAndDark(L, lastOp'.cmd.positionIndex)]_vars

\* SUCCESS A has expanded by a step, then SHOW A and HIDE A were executed
C13_Witness ==
    /\ lastOp.op = "executeCommand"
    /\ lastOp.cmd.action = "HIDE"
    /\ lastOp.cmd.positionIndex = 0
    /\ lastEnqueued(1) = queueAck(S_HIDE, "A", 2)
    /\ lastEnqueued(2) = queueAck(S_SHOW, "A", 1)
    /\ lastEnqueued(3) = queueAck(S_SUCCESS, "A", 3)
    /\ now >= SETUP_DELAY_MS + ANIMATION_STEP_MS
    /\ idleAndDark(LED, 0)

\* C14: HIDE for a position that is OFF is answered by ACK HIDE with the
\* command's position and id and by nothing else, and leaves the position OFF
\* with its pixels off; hide applied twice gives the LED state hide applied
\* once gives, for every position and whatever state the controller is in.
C14_HideIdempotent ==
    /\ [](ledChanged => \A L \in {LED} : \A p \in Positions :
            \A once \in {hide(L, p)} : \A twice \in {hide(once.L, p)} :
                /\ once.ok
                /\ twice.ok
                /\ twice.L = once.L)
    /\ [][( /\ lastOp'.op = "executeCommand"
            /\ lastOp'.cmd.action = "HIDE"
            /\ m_positions[lastOp'.cmd.positionIndex].state = "OFF" )
          => /\ offered' = <<queueAck(S_HIDE, lastOp'.cmd.position,
                                      lastOp'.cmd.id)>>
             /\ \A L \in {LED'} : idleAndDark(L, lastOp'.cmd.positionIndex)]_vars

\* HIDE A was executed twice in a row, the celebration animation having
\* painted the strips before
C14_Witness ==
    /\ lastOp.op = "executeCommand"
    /\ lastOp.cmd.action = "HIDE"
    /\ lastEnqueued(1) = queueAck(S_HIDE, "A", 2)
    /\ lastEnqueued(2) = queueAck(S_HIDE, "A", 2)
    /\ m_sequenceAnimActive
    /\ idleAndDark(LED, 0)
(***************************************************************************)
(* SpecSerial: loop() with the host's lines arriving in pieces, some lines *)
(* longer than the line buffer and some pieces larger than the free space  *)
(* of the ring buffer.                                                     *)
(***************************************************************************)
\* n bytes "x"
filler(n) == [k \in 1..n |-> "x"]

\* what Serial has available at a call of pollSerial: 32 or 100 bytes from the
\* middle of a line, or the end of a line, "PING #1" and the terminator
SerialChunks ==
    {filler(32), filler(100), <<"P","I","N","G"," ","#","1","\n">>}

InitSerial == InitWith({TRUE}) /\ \A i \in Sensors : m_sensors[i].active

NextSerial ==
    \/ \E bytes \in SerialChunks : PollSerial(bytes, MaxLinesSerial, MaxLenSerial)
    \/ PollNothing
    \/ ProcessCompletedLines(TRUE)
    \/ CommandTick
    \/ TouchTick(NoTouch)
    \/ LedTick
    \/ LoopFlush

SpecSerial == InitSerial /\ [][NextSerial]_vars

\* the bytes the ring buffer holds, oldest first
stored(rx) ==
    [k \in 1..((rx.head + RX_BUFFER_SIZE - rx.tail) % RX_BUFFER_SIZE) |->
        rx.buffer[(rx.tail + k - 1) % RX_BUFFER_SIZE]]

hasTerminator(bytes) == \E k \in DOMAIN bytes : bytes[k] \in {"\n", "\r"}

\* C15: a line of MAX_LINE_LEN or more bytes before its terminator is reported
\* exactly once: whatever pieces it arrives in, once processCompletedLines has
\* seen 64 bytes of it the events queued for the line are one ERR
\* line_too_long and nothing else, none of its bytes being parsed as a command.
C15_OverlongReportedOnce ==
    (hostSent.len >= MAX_LINE_LEN /\ pc # "lines")
        => hostEvents = <<queueError(S_line_too_long, NO_COMMAND_ID)>>

\* C16: when processCompletedLines finds no terminator in the ring buffer and
\* at least MAX_LINE_LEN bytes pending, extractLine advances m_rxTail by
\* exactly 64, leaves m_rxHead and the buffer as they are, and one ERR
\* line_too_long without id is queued; when it finds fewer bytes and no
\* terminator, extractLine returns no line and no cursor moves.
C16_OverflowAdvances ==
    /\ [](pc = "lines" =>
            \A rx \in {RX} : \A r \in {extractLine(rx, m_lineBuffer)} :
                ~hasTerminator(stored(rx)) =>
                    IF Len(stored(rx)) >= MAX_LINE_LEN
                    THEN /\ r.found
                         /\ r.overflow
                         /\ r.rx.tail = (rx.tail + 64) % RX_BUFFER_SIZE
                         /\ r.rx.head = rx.head
                         /\ r.rx.buffer = rx.buffer
                         /\ stored(r.rx) = SubSeq(stored(rx), 65, Len(stored(rx)))
                    ELSE /\ ~r.found
                         /\ r.rx = rx)
    /\ [][( /\ lastOp'.op = "processCompletedLines"
            /\ ~hasTerminator(stored(RX)) )
          => IF Len(stored(RX)) >= MAX_LINE_LEN
             THEN /\ offered' = <<queueError(S_line_too_long, NO_COMMAND_ID)>>
                  /\ m_rxTail' = (m_rxTail + 64) % RX_BUFFER_SIZE
                  /\ m_rxHead' = m_rxHead
                  /\ m_rxBuffer' = m_rxBuffer
             ELSE /\ offered' = << >>
                  /\ UNCHANGED rxVars]_vars

\* 100 bytes without a terminator were pending, with the cursors wrapped; 64
\* were discarded, 36 are left
C16_Witness ==
    /\ lastOp.op = "processCompletedLines"
    /\ offered = <<queueError(S_line_too_long, NO_COMMAND_ID)>>
    /\ m_rxHead < m_rxTail
    /\ stored(RX) = filler(36)

\* the bytes the last pollSerial read, in a step of pollSerial
polled ==
    SubSeq(hostLine', (IF hostSent.done THEN 0 ELSE hostSent.len) + 1,
           Len(hostLine'))
    \o (IF hostSent'.done THEN <<"\n">> ELSE << >>)

\* C17: pollSerial stores the bytes it reads behind those the ring buffer
\* holds as long as there is room for them, 127 at most, and drops the others;
\* it never moves the read cursor.  With the buffer full a byte read is
\* dropped, buffer and cursors staying as they are.  The bytes held are only
\* ever taken from the front, by extractLine: none is overwritten.
C17_FullDrops ==
    /\ [](Len(stored(RX)) = RX_BUFFER_SIZE - 1 =>
             \A c \in {"x", "\n"} : pollSerial(RX, <<c>>) = RX)
    /\ [][lastOp'.op = "pollSerial" /\ lastOp'.arg > 0 =>
            /\ m_rxTail' = m_rxTail
            /\ stored(RX)' =
                 stored(RX) \o SubSeq(polled, 1,
                                      Min(Len(polled),
                                          RX_BUFFER_SIZE - 1 - Len(stored(RX))))]_vars
    /\ [][\E k \in 0..Len(stored(RX)) : \E n \in 0..Len(stored(RX)') :
            SubSeq(stored(RX), k + 1, Len(stored(RX)))
                = SubSeq(stored(RX)', 1, n)]_vars

\* 32 bytes were pending when pollSerial read 100: the buffer is full with
\* 127 and the last 5 were dropped
C17_Witness ==
    /\ lastOp.op = "pollSerial"
    /\ lastOp.arg = 100
    /\ hostSent.len = 132
    /\ stored(RX) = filler(RX_BUFFER_SIZE - 1)
(***************************************************************************)
(* SpecCelebrate: loop() with the host sending SEQUENCE_COMPLETED and      *)
(* SUCCESS, the two commands tickCommand completes with queueDone, and     *)
(* time enough for the celebration animation to end.                       *)
(***************************************************************************)
\* "SEQUENCE_COMPLETED #5", "SUCCESS A #3"
CelebrateLines ==
    {Command("SEQUENCE_COMPLETED", 255, TRUE, 5),
     Command("SUCCESS", 0, TRUE, 3)}

CelebrateTimeSteps == {150}

InitCelebrate == InitWith({TRUE}) /\ \A i \in Sensors : m_sensors[i].active

NextCelebrate ==
    \/ \E cmd \in CelebrateLines :
           lines < MaxLinesCelebrate /\ ExecuteCommand(cmd, TRUE)
    \/ CommandTick
    \/ TouchTick(NoTouch)
    \/ LedTick
    \/ LoopFlush
    \/ \E d \in CelebrateTimeSteps : Advance(d, SETUP_DELAY_MS + MaxTimeCelebrate)

SpecCelebrate == InitCelebrate /\ [][NextCelebrate]_vars

\* C18: every long-running command that is admitted is acknowledged by an ACK
\* with its id in the step that admits it, and the tick that completes it,
\* freeing its slot, enqueues a DONE event carrying the command's action name
\* and id.
C18_AckThenDone ==
    /\ [][( /\ lastOp'.op = "executeCommand"
            /\ actionIsLongRunning(lastOp'.cmd.action)
            /\ \E k \in DOMAIN m_commandQueue :
                   ~m_commandQueue[k].active /\ m_commandQueue'[k].active )
          => /\ Len(offered') = 1
             /\ offered'[1].type = "ACK"
             /\ offered'[1].commandId = idOf(lastOp'.cmd)]_vars
    /\ [][lastOp'.op = "tick" =>
            \A k \in DOMAIN m_commandQueue :
                (m_commandQueue[k].active /\ ~m_commandQueue'[k].active) =>
                    \E j \in DOMAIN offered' :
                        /\ offered'[j].type = "DONE"
                        /\ offered'[j].action =
                               actionToString(m_commandQueue[k].command.action)
                        /\ offered'[j].commandId =
                               idOf(m_commandQueue[k].command)]_vars
\* the slots that hold a SCAN command
scanSlots(cq) ==
    {k \in DOMAIN cq : cq[k].active /\ cq[k].command.action = "SCAN"}

\* the letters of the active sensors in the order A..Y, with a comma between
\* one and the next
activeLetters ==
    LET act == {i \in Sensors : m_sensors[i].active}
        nth(n) == CHOOSE i \in act : Cardinality({j \in act : j < i}) = n - 1
    IN  [k \in 1..(IF act = {} THEN 0 ELSE 2 * Cardinality(act) - 1) |->
            IF k % 2 = 1 THEN indexToLetter(nth((k + 1) \div 2)) ELSE ","]

\* C25: a dispatcher tick that finds a slot holding an admitted SCAN frees it
\* and queues for it a SCANNED event with the command's id whose payload is
\* the letters of exactly the active sensors, in the order A..Y, with commas
\* between them, none cut off; the tick queues one SCANNED event per such
\* slot.  So a SCAN is completed by the first tick after its admission.
C25_ScanCompletes ==
    [][lastOp'.op = "tick"
         => /\ \A k \in scanSlots(m_commandQueue) :
                  /\ ~m_commandQueue'[k].active
                  /\ \E j \in DOMAIN offered' :
                         offered'[j] =
                             [type |-> "SCANNED", action |-> << >>, position |-> "",
                              commandId |-> idOf(m_commandQueue[k].command),
                              extra |-> activeLetters, valid |-> TRUE]
            /\ Cardinality({j \in DOMAIN offered' : offered'[j].type = "SCANNED"})
                   = Cardinality(scanSlots(m_commandQueue))]_vars

\* SCAN #5 completed by a tick with the sensor A inactive: the payload is
\* B,C,...,Y, 24 letters and 23 commas
C25_Witness ==
    /\ lastOp.op = "tick"
    /\ ~m_sensors[0].active
    /\ \E j \in DOMAIN offered : /\ offered[j].type = "SCANNED"
                                 /\ offered[j].commandId = 5
                                 /\ Len(offered[j].extra) = 47
                                 /\ offered[j].extra[1] = "B"
                                 /\ offered[j].extra[47] = "Y"
    /\ \A k \in DOMAIN m_commandQueue : ~m_commandQueue[k].active

(***************************************************************************)
(* FairDispatch: SpecDispatch with loop() called for ever, as the Arduino  *)
(* core does: each call loop() makes is made once the one before it has    *)
(* returned.  The host is under no obligation to send anything, nor time   *)
(* to pass between two iterations.                                         *)
(***************************************************************************)
FairDispatch ==
    /\ SpecDispatch
    /\ WF_vars(CommandTick)
    /\ WF_vars(TouchTick(NoTouch))
    /\ WF_vars(LedTick)
    /\ WF_vars(LoopFlush)

\* C19: a slot that holds an admitted RECALIBRATE_ALL is changed by no step
\* but the dispatcher's tick, which never moves its cursor back; the slot is
\* free only once the cursor has passed all 25 sensors; and with loop()
\* running for ever the slot does become free.
C19_RunsToCompletion ==
    /\ [][\A k \in recalibrateAllSlots(m_commandQueue) :
            /\ m_commandQueue'[k].command = m_commandQueue[k].command
            /\ m_commandQueue'[k].scanAddress >= m_commandQueue[k].scanAddress
            /\ m_commandQueue'[k] # m_commandQueue[k] => lastOp'.op = "tick"
            /\ ~m_commandQueue'[k].active =>
                   m_commandQueue'[k].scanAddress >= NUM_TOUCH_SENSORS]_vars
    /\ \A k \in 0..(COMMAND_QUEUE_SIZE - 1) :
           (k \in recalibrateAllSlots(m_commandQueue))
               ~> ~m_commandQueue[k].active

\* RECALIBRATE_ALL #3 has completed, all 25 sensors passed, a SCAN #5 having
\* been admitted and answered while it ran
C19_Witness ==
    /\ m_touchController
    /\ lastOp.op = "tick"
    /\ recalibratedAll(offered, 3) # {}
    /\ \A k \in DOMAIN m_commandQueue : ~m_commandQueue[k].active
    /\ \E k \in DOMAIN m_commandQueue :
           /\ m_commandQueue[k].command.action = "RECALIBRATE_ALL"
           /\ m_commandQueue[k].scanAddress = NUM_TOUCH_SENSORS
    /\ \E j \in DOMAIN m_queue : /\ m_queue[j].valid
                                 /\ m_queue[j].type = "SCANNED"
                                 /\ m_queue[j].commandId = 5
(***************************************************************************)
(* SpecRearm: loop() with a finger on and off the sensor A, the host       *)
(* sending EXPECT commands for A one after the other, each with an id it   *)
(* has not used before, whether or not the one before was answered.        *)
(***************************************************************************)
\* "EXPECT_DOWN A #6", "EXPECT_DOWN A #8", "EXPECT_UP A #7", "EXPECT_DOWN A #9"
RearmLines ==
    <<Command("EXPECT_DOWN", 0, TRUE, 6), Command("EXPECT_DOWN", 0, TRUE, 8),
      Command("EXPECT_UP", 0, TRUE, 7), Command("EXPECT_DOWN", 0, TRUE, 9)>>

RearmTimeSteps == {10}

InitRearm == InitWith({TRUE})

NextRearm ==
    \/ /\ lines < MaxLinesRearm
       /\ lines < Len(RearmLines)
       /\ ExecuteCommand(RearmLines[lines + 1], TRUE)
    \/ CommandTick
    \/ \E reading \in TouchReadings : TouchTick(reading)
    \/ LedTick
    \/ LoopFlush
    \/ \E d \in RearmTimeSteps : Advance(d, SETUP_DELAY_MS + MaxTimeRearm)

SpecRearm == InitRearm /\ [][NextRearm]_vars

\* expect[i] is the expectation of the EXPECT command pending[i] waits for
sameExpectation(expect, pending) ==
    \A i \in Sensors :
        /\ expect[i].active <=> pending[i].armed
        /\ expect[i].active => expect[i].commandId = pending[i].id

\* the ids of the EXPECT commands that another one took the place of
replacedIds ==
    UNION {pendingDown[i].replaced \cup pendingUp[i].replaced : i \in Sensors}

\* an EXPECT command for a sensor and direction whose expectation is armed
\* takes its place: only the ACK of the new command is queued
rearmed(expect, expectNew, pending, pendingNew, cmd) ==
    pending[cmd.positionIndex].armed
        => /\ expectNew = [expect EXCEPT ![cmd.positionIndex] =
                              [active |-> TRUE, commandId |-> idOf(cmd)]]
           /\ pending[cmd.positionIndex].id \in pendingNew[cmd.positionIndex].replaced
           /\ Len(offered') = 1
           /\ offered'[1].type = "ACK"
           /\ offered'[1].commandId = idOf(cmd)

\* a debounced transition of sensor i in the direction of an armed
\* expectation queues one TOUCHED event with the id of the last EXPECT command
fulfilled(i, down, pending, type) ==
    (pending[i].armed /\ countEvents(offered', i, down) > 0)
        => /\ countEvents(offered', i, down) = 1
           /\ \A k \in DOMAIN offered' :
                  isTouchEvent(offered'[k], i, down)
                      => /\ offered'[k].type = type
                         /\ offered'[k].commandId = pending[i].id

\* C20: each sensor has one expectation per direction, that of the last EXPECT
\* command not yet answered; an EXPECT command for a sensor and direction
\* whose expectation is still armed takes its place, nothing but its own ACK
\* being queued; the next debounced transition in that direction queues
\* exactly one TOUCHED event, with the id of the last EXPECT command; and once
\* a command has been replaced no event queued carries its id.
C20_RearmReplaces ==
    /\ [](/\ sameExpectation(m_expectDown, pendingDown)
          /\ sameExpectation(m_expectUp, pendingUp))
    /\ [][/\ (lastOp'.op = "executeCommand" /\ lastOp'.cmd.action = "EXPECT_DOWN")
               => /\ rearmed(m_expectDown, m_expectDown', pendingDown,
                             pendingDown', lastOp'.cmd)
                  /\ m_expectUp' = m_expectUp
          /\ (lastOp'.op = "executeCommand" /\ lastOp'.cmd.action = "EXPECT_UP")
               => /\ rearmed(m_expectUp, m_expectUp', pendingUp, pendingUp',
                             lastOp'.cmd)
                  /\ m_expectDown' = m_expectDown
          /\ lastOp'.op = "touchTick"
               => \A i \in Sensors :
                      /\ fulfilled(i, TRUE, pendingDown, "TOUCHED_DOWN")
                      /\ fulfilled(i, FALSE, pendingUp, "TOUCHED_UP")
          /\ \A k \in DOMAIN offered' :
                 offered'[k].commandId \notin replacedIds']_vars

\* EXPECT_DOWN A #8 took the place of EXPECT_DOWN A #6, and the press of A
\* that followed has queued TOUCHED_DOWN A #8
C20_Witness ==
    /\ lastOp.op = "touchTick"
    /\ 6 \in pendingDown[0].replaced
    /\ \E k \in DOMAIN offered : /\ offered[k].type = "TOUCHED_DOWN"
                                 /\ offered[k].position = "A"
                                 /\ offered[k].commandId = 8
(***************************************************************************)
(* SpecInstant: loop() with the host sending the instant commands for the  *)
(* position A, whose sensor may have failed its initialisation, and PING;  *)
(* the write of the calibration register may fail.                         *)
(***************************************************************************)
InstantLines ==
    {Command("SHOW", 0, TRUE, 1), Command("HIDE", 0, TRUE, 2),
     Command("BLINK", 0, TRUE, 3), Command("STOP_BLINK", 0, TRUE, 4),
     Command("EXPECT_DOWN", 0, TRUE, 6), Command("EXPECT_UP", 0, TRUE, 7),
     Command("RECALIBRATE", 0, TRUE, 8), Command("PING", 255, FALSE, 0)}

InstantTimeSteps == {150}

InitInstant == InitWith(BOOLEAN)

NextInstant ==
    \/ \E cmd \in InstantLines : \E wr \in BOOLEAN :
           lines < MaxLinesInstant /\ ExecuteCommand(cmd, wr)
    \/ CommandTick
    \/ TouchTick(NoTouch)
    \/ LedTick
    \/ LoopFlush
    \/ \E d \in InstantTimeSteps : Advance(d, SETUP_DELAY_MS + MaxTimeInstant)

SpecInstant == InitInstant /\ [][NextInstant]_vars

\* the step is executeCommand of a command with one of the actions
Executes(actions) ==
    lastOp'.op = "executeCommand" /\ lastOp'.cmd.action \in actions

\* what the operation under an instant command returned in the step: the
\* LED operations fail for no position of the table, recalibrate fails for a
\* sensor that is not active and when its register write fails
operationSucceeded ==
    CASE lastOp'.cmd.action \in {"SHOW", "HIDE", "BLINK", "STOP_BLINK"} ->
             lastOp'.cmd.positionIndex < NUM_POSITIONS
      [] lastOp'.cmd.action = "RECALIBRATE" ->
             /\ lastOp'.cmd.positionIndex < NUM_TOUCH_SENSORS
             /\ m_sensors[lastOp'.cmd.positionIndex].active
             /\ lastOp'.arg = 0
      [] OTHER -> TRUE

\* the ACK and ERR events among a handler's enqueue calls
replies(events) == {k \in DOMAIN events : events[k].type \in {"ACK", "ERR"}}

\* C21: with a touch controller, executing SHOW, HIDE, BLINK, STOP_BLINK,
\* EXPECT_DOWN, EXPECT_UP, RECALIBRATE or PING queues exactly one ACK or ERR,
\* as the first event: the ACK with the whole action name, the command's
\* position and id if the operation succeeded, ERR command_failed with the id
\* if it failed; and the command slots are left as they were.
C21_InstantReply ==
    [][(m_touchController /\ Executes({"SHOW", "HIDE", "BLINK", "STOP_BLINK",
                                       "EXPECT_DOWN", "EXPECT_UP",
                                       "RECALIBRATE", "PING"}))
         => /\ Cardinality(replies(offered')) = 1
            /\ offered'[1] =
                   IF operationSucceeded
                   THEN [type |-> "ACK",
                         action |-> actionToString(lastOp'.cmd.action),
                         position |-> lastOp'.cmd.position,
                         commandId |-> idOf(lastOp'.cmd),
                         extra |-> << >>, valid |-> TRUE]
                   ELSE queueError(S_command_failed, idOf(lastOp'.cmd))
            /\ m_commandQueue' = m_commandQueue]_vars

\* RECALIBRATE A #8 with the sensor A inactive: ERR command_failed #8
C21_Witness ==
    /\ m_touchController
    /\ ~m_sensors[0].active
    /\ lastOp.op = "executeCommand"
    /\ lastOp.cmd.action = "RECALIBRATE"
    /\ offered = <<queueError(S_command_failed, 8)>>

\* C22: without a touch controller, executing EXPECT_DOWN, EXPECT_UP or
\* RECALIBRATE queues ERR no_touch_controller with the command's id and
\* nothing else, writes no calibration register, and leaves the command
\* slots, the LED state, the sensors and the expectations as they were.
C22_NoTouchController ==
    [][(~m_touchController /\ Executes({"EXPECT_DOWN", "EXPECT_UP", "RECALIBRATE"}))
         => /\ offered' = <<queueError(S_no_touch_controller, idOf(lastOp'.cmd))>>
            /\ EQ' = enqueue(EQ, queueError(S_no_touch_controller, idOf(lastOp'.cmd)))
            /\ calWrites' = << >>
            /\ UNCHANGED <<now, cmdVars, rxVars, lineVars, ledVars, touchVars>>]_vars

\* EXPECT_DOWN A #6 without a touch controller: ERR no_touch_controller #6
C22_Witness ==
    /\ ~m_touchController
    /\ lastOp.op = "executeCommand"
    /\ lastOp.cmd.action = "EXPECT_DOWN"
    /\ offered = <<queueError(S_no_touch_controller, 6)>>
    /\ \A i \in Sensors : ~m_expectDown[i].active

\* C23: executing RECALIBRATE for a position with a touch controller, an
\* active sensor and a register write that succeeds queues ACK RECALIBRATE
\* with the position and the id and then RECALIBRATED with the same position
\* and id, and nothing else; executing it otherwise queues neither an ACK nor
\* a RECALIBRATED event.
C23_RecalibrateReply ==
    [][Executes({"RECALIBRATE"})
         => IF m_touchController /\ operationSucceeded
            THEN offered' =
                   <<[type |-> "ACK", action |-> S_RECALIBRATE,
                      position |-> lastOp'.cmd.position,
                      commandId |-> idOf(lastOp'.cmd),
                      extra |-> << >>, valid |-> TRUE],
                     [type |-> "RECALIBRATED", action |-> << >>,
                      position |-> lastOp'.cmd.position,
                      commandId |-> idOf(lastOp'.cmd),
                      extra |-> << >>, valid |-> TRUE]>>
            ELSE \A k \in DOMAIN offered' :
                     offered'[k].type \notin {"ACK", "RECALIBRATED"}]_vars

\* RECALIBRATE A #8 with the sensor A active and its register written
C23_Witness ==
    /\ m_touchController
    /\ m_sensors[0].active
    /\ lastOp.op = "executeCommand"
    /\ lastOp.cmd.action = "RECALIBRATE"
    /\ calWrites = <<0>>
    /\ Len(offered) = 2
    /\ offered[2].type = "RECALIBRATED"
    /\ offered[2].commandId = 8

(***************************************************************************)
(* SpecInactive: loop() with a finger on and off the sensor A, which may   *)
(* have failed its initialisation, the host sending EXPECT commands for A  *)
(* and SCAN.                                                               *)
(***************************************************************************)
\* "EXPECT_DOWN A #6", "EXPECT_UP A #7" and "SCAN #5"
InactiveLines ==
    {Command("EXPECT_DOWN", 0, TRUE, 6), Command("EXPECT_UP", 0, TRUE, 7),
     Command("SCAN", 255, TRUE, 5)}

InactiveTimeSteps == {10}

InitInactive == InitWith({TRUE})

NextInactive ==
    \/ \E cmd \in InactiveLines :
           lines < MaxLinesInactive /\ ExecuteCommand(cmd, TRUE)
    \/ CommandTick
    \/ \E reading \in TouchReadings : TouchTick(reading)
    \/ LedTick
    \/ LoopFlush
    \/ \E d \in InactiveTimeSteps : Advance(d, SETUP_DELAY_MS + MaxTimeInactive)

SpecInactive == InitInactive /\ [][NextInactive]_vars

\* the letter c occurs in the text
occursIn(c, text) == \E k \in DOMAIN text : text[k] = c

\* C26: a sensor that is not active is never made active; no step changes its
\* raw state, the time of its last raw change, its debounced or its reported
\* state, whatever is read while a finger is on it; no step queues a
\* TOUCH_DOWN, TOUCH_UP, TOUCHED_DOWN or TOUCHED_UP event with its letter,
\* whether or not an expectation is armed on it, nor consumes such an
\* expectation; and no SCANNED event queued has its letter in the payload.
C26_InactiveStaysOut ==
    [][\A i \in Sensors :
           ~m_sensors[i].active
               => /\ m_sensors'[i] = m_sensors[i]
                  /\ touchEvents(offered', i) = {}
                  /\ m_expectDown[i].active => m_expectDown'[i].active
                  /\ m_expectUp[i].active => m_expectUp'[i].active
                  /\ \A j \in DOMAIN offered' :
                         offered'[j].type = "SCANNED"
                             => ~occursIn(indexToLetter(i), offered'[j].extra)]_vars

\* the sensor A inactive with EXPECT_DOWN A #6 armed on it, after polls over
\* more than DEBOUNCE_MS and a SCAN answered without the letter A
C26_Witness ==
    /\ ~m_sensors[0].active
    /\ m_expectDown[0] = [active |-> TRUE, commandId |-> 6]
    /\ lastOp.op = "touchTick"
    /\ m_lastPollTime >= SETUP_DELAY_MS + DEBOUNCE_MS + TOUCH_POLL_INTERVAL_MS
    /\ m_lastPollTime = now
    /\ \E j \in DOMAIN m_queue : /\ m_queue[j].valid
                                 /\ m_queue[j].type = "SCANNED"
                                 /\ m_queue[j].extra[1] = "B"

(***************************************************************************)
(* SpecExpand: loop() with the host sending SUCCESS, HIDE, SHOW and BLINK  *)
(* for the position A and SEQUENCE_COMPLETED, and time enough for the      *)
(* expansion and the celebration to end.                                   *)
(***************************************************************************)
ExpandLines ==
    {Command("SUCCESS", 0, TRUE, 3), Command("HIDE", 0, TRUE, 2),
     Command("SHOW", 0, TRUE, 1), Command("BLINK", 0, TRUE, 4),
     Command("SEQUENCE_COMPLETED", 255, TRUE, 5)}

ExpandTimeSteps == {150}

InitExpand == InitWith({TRUE}) /\ \A i \in Sensors : m_sensors[i].active

NextExpand ==
    \/ \E cmd \in ExpandLines :
           lines < MaxLinesExpand /\ ExecuteCommand(cmd, TRUE)
    \/ CommandTick
    \/ TouchTick(NoTouch)
    \/ LedTick
    \/ LoopFlush
    \/ \E d \in ExpandTimeSteps : Advance(d, SETUP_DELAY_MS + MaxTimeExpand)

SpecExpand == InitExpand /\ [][NextExpand]_vars

\* the step is executeCommand of one of the actions for the position p
ExecutesOn(actions, p) ==
    /\ lastOp'.op = "executeCommand"
    /\ lastOp'.cmd.action \in actions
    /\ lastOp'.cmd.positionIndex = p

\* the step is the LED tick in which the celebration animation ends
celebrationEnds ==
    lastOp'.op = "ledTick" /\ m_sequenceAnimActive /\ ~m_sequenceAnimActive'

\* the step changes the state or the animation step of the position p
phaseChanges(p) ==
    \/ m_positions'[p].state # m_positions[p].state
    \/ m_positions'[p].animationStep # m_positions[p].animationStep

\* SUCCESS for p leaves p ANIMATING at step 0
successStarts(p) ==
    ExecutesOn({"SUCCESS"}, p)
        => /\ m_positions'[p].state = "ANIMATING"
           /\ m_positions'[p].animationStep = 0

\* an LED tick on p ANIMATING: one step more if ANIMATION_STEP_MS have passed
\* since the last, EXPANDED when the step reaches SUCCESS_EXPANSION_RADIUS;
\* no change if they have not
animationSteps(p) ==
    IF now - m_positions[p].lastAnimationTime >= ANIMATION_STEP_MS
    THEN /\ m_positions'[p].animationStep = m_positions[p].animationStep + 1
         /\ m_positions'[p].state =
                IF m_positions'[p].animationStep = SUCCESS_EXPANSION_RADIUS
                THEN "EXPANDED" ELSE "ANIMATING"
    ELSE ~phaseChanges(p)

\* C27 (as the specification has it): once p is EXPANDED only HIDE, SHOW or
\* BLINK for p changes its state or step, and every due LED tick on p
\* ANIMATING adds one step.
C27_ExpandedUntilCommand ==
    [][\A p \in Positions :
          /\ successStarts(p)
          /\ (lastOp'.op = "ledTick" /\ m_positions[p].state = "ANIMATING")
                => animationSteps(p)
          /\ (m_positions[p].state = "EXPANDED" /\ phaseChanges(p))
                => ExecutesOn({"HIDE", "SHOW", "BLINK"}, p)]_vars

\* C27: SUCCESS for a position leaves it ANIMATING at step 0.  An LED tick
\* other than the one that ends a celebration adds exactly one step to an
\* ANIMATING position if ANIMATION_STEP_MS have passed since its last step
\* and none if not, and makes it EXPANDED when the step reaches
\* SUCCESS_EXPANSION_RADIUS.  The state and step of an EXPANDED position are
\* changed only by HIDE, SHOW, BLINK or SUCCESS for that position and by the
\* LED tick that ends a celebration, which leaves every position OFF at step 0.
C27_ExpansionSteps ==
    [][\A p \in Positions :
          /\ successStarts(p)
          /\ (lastOp'.op = "ledTick" /\ m_positions[p].state = "ANIMATING"
                  /\ ~celebrationEnds)
                => animationSteps(p)
          /\ (m_positions[p].state = "EXPANDED" /\ phaseChanges(p))
                => \/ ExecutesOn({"HIDE", "SHOW", "BLINK", "SUCCESS"}, p)
                   \/ celebrationEnds
          /\ celebrationEnds
                => /\ m_positions'[p].state = "OFF"
                   /\ m_positions'[p].animationStep = 0]_vars

\* the position A EXPANDED after its five steps, the celebration one step
\* from its end
C27_Witness ==
    /\ lastOp.op = "ledTick"
    /\ m_positions[0].state = "EXPANDED"
    /\ m_positions[0].animationStep = SUCCESS_EXPANSION_RADIUS
    /\ m_sequenceAnimActive
    /\ m_sequenceAnimStep = SEQUENCE_ANIM_TOTAL_STEPS - 1

\* the step lowers the animation step of the position p
stepDecreases(p) == m_positions'[p].animationStep < m_positions[p].animationStep

\* the step lowers the step of the celebration
celebrationRestarts ==
    /\ m_sequenceAnimStep' < m_sequenceAnimStep
       => /\ m_sequenceAnimStep' = 0
          /\ Executes({"SEQUENCE_COMPLETED"})
    /\ lastOp'.op = "ledTick"
       => m_sequenceAnimStep' \in {m_sequenceAnimStep, m_sequenceAnimStep + 1}

\* C28 (as the specification has it): a position's step goes down only to 0
\* and only when SUCCESS or BLINK starts an animation on it, the
\* celebration's only when SEQUENCE_COMPLETED starts it.
C28_ResetOnlyOnStart ==
    [][/\ \A p \in Positions :
              stepDecreases(p)
                  => /\ m_positions'[p].animationStep = 0
                     /\ ExecutesOn({"SUCCESS", "BLINK"}, p)
       /\ celebrationRestarts]_vars

\* C28: a position's animation step goes down only to 0, and only when
\* SUCCESS, BLINK, SHOW or HIDE is executed for that position or in the LED
\* tick that ends a celebration; every other LED tick leaves it or adds one.
\* The celebration's step goes down only to 0 and only when
\* SEQUENCE_COMPLETED is executed; an LED tick leaves it or adds one.
C28_StepMonotonic ==
    [][/\ \A p \in Positions :
              /\ stepDecreases(p)
                    => /\ m_positions'[p].animationStep = 0
                       /\ \/ ExecutesOn({"SUCCESS", "BLINK", "SHOW", "HIDE"}, p)
                          \/ celebrationEnds
              /\ (lastOp'.op = "ledTick" /\ ~celebrationEnds)
                    => m_positions'[p].animationStep \in
                           {m_positions[p].animationStep,
                            m_positions[p].animationStep + 1}
       /\ celebrationRestarts]_vars

\* SEQUENCE_COMPLETED executed while an earlier celebration is at step 3 or
\* later: the step is 0 again, both commands hold a slot
C28_Witness ==
    /\ lastOp.op = "executeCommand"
    /\ lastOp.cmd.action = "SEQUENCE_COMPLETED"
    /\ m_sequenceAnimActive
    /\ m_sequenceAnimStep = 0
    /\ \E k \in DOMAIN m_commandQueue :
           /\ m_commandQueue[k].active
           /\ m_commandQueue[k].command.action = "SEQUENCE_COMPLETED"
           /\ now - m_commandQueue[k].startTime >= 3 * STEP_DURATION

\* the slots that hold a SEQUENCE_COMPLETED command
celebrationSlots(cq) ==
    {k \in DOMAIN cq : cq[k].active /\ cq[k].command.action = "SEQUENCE_COMPLETED"}

\* C29: executing SEQUENCE_COMPLETED with a free slot starts the celebration
\* at step 0.  An LED tick adds one step to an active celebration if
\* STEP_DURATION have passed since its last step and none if not; the
\* celebration is active exactly while its step is below
\* SEQUENCE_ANIM_TOTAL_STEPS, and the tick that takes the step there leaves
\* all 25 positions OFF and the celebration complete.  A slot holding
\* SEQUENCE_COMPLETED is freed, and a DONE event with its id queued, only
\* by a dispatcher tick that finds the celebration complete at step
\* SEQUENCE_ANIM_TOTAL_STEPS.
C29_CelebrationRun ==
    /\ [](m_sequenceAnimActive => m_sequenceAnimStep < SEQUENCE_ANIM_TOTAL_STEPS)
    /\ [][/\ (Executes({"SEQUENCE_COMPLETED"}) /\ offered'[1].type = "ACK")
              => /\ m_sequenceAnimActive'
                 /\ m_sequenceAnimStep' = 0
                 /\ m_sequenceAnimLastTime' = now
          /\ (lastOp'.op = "ledTick" /\ m_sequenceAnimActive)
              => IF now - m_sequenceAnimLastTime >= STEP_DURATION
                 THEN /\ m_sequenceAnimStep' = m_sequenceAnimStep + 1
                      /\ m_sequenceAnimActive'
                             <=> m_sequenceAnimStep' < SEQUENCE_ANIM_TOTAL_STEPS
                 ELSE /\ m_sequenceAnimStep' = m_sequenceAnimStep
                      /\ m_sequenceAnimActive'
          /\ celebrationEnds
              => /\ isSequenceCompletedAnimationComplete(LED')
                 /\ \A p \in Positions : m_positions'[p].state = "OFF"
          /\ \A k \in celebrationSlots(m_commandQueue) :
                 LET done == {j \in DOMAIN offered' :
                                 /\ offered'[j].type = "DONE"
                                 /\ offered'[j].commandId =
                                        idOf(m_commandQueue[k].command)}
                 IN  IF /\ lastOp'.op = "tick"
                        /\ ~m_sequenceAnimActive
                        /\ m_sequenceAnimStep = SEQUENCE_ANIM_TOTAL_STEPS
                     THEN ~m_commandQueue'[k].active /\ done # {}
                     ELSE m_commandQueue'[k].active /\ done = {}]_vars

\* the tick that queues the DONE event of SEQUENCE_COMPLETED #5, the
\* celebration complete after its eight steps of at least 150 ms
C29_Witness ==
    /\ lastOp.op = "tick"
    /\ \E j \in DOMAIN offered : offered[j].type = "DONE" /\ offered[j].commandId = 5
    /\ ~m_sequenceAnimActive
    /\ m_sequenceAnimStep = SEQUENCE_ANIM_TOTAL_STEPS
    /\ \A p \in Positions : m_positions[p].state = "OFF"
    /\ \E k \in DOMAIN m_commandQueue :
           /\ ~m_commandQueue[k].active
           /\ m_commandQueue[k].command.action = "SEQUENCE_COMPLETED"
           /\ now - m_commandQueue[k].startTime
                  >= SEQUENCE_ANIM_TOTAL_STEPS * STEP_DURATION

\* the color show, blink and success give the center pixel
centerColor(action) ==
    CASE action = "SHOW" -> COLOR_SHOW
      [] action = "BLINK" -> COLOR_BLINK
      [] action = "SUCCESS" -> COLOR_SUCCESS

\* C30: after SHOW, BLINK or an admitted SUCCESS has been executed for a
\* position that was ANIMATING or EXPANDED, every pixel of the position's
\* expansion region, the SUCCESS_EXPANSION_RADIUS pixels on either side of
\* its center, is off, whatever lit it before, and the center has the color
\* of the new operation.
C30_RegionCleared ==
    [][\A p \in Positions :
          ( /\ ExecutesOn({"SHOW", "BLINK", "SUCCESS"}, p)
            /\ offered'[1].type = "ACK"
            /\ m_positions[p].state \in {"ANIMATING", "EXPANDED"} )
          => \A L \in {LED'} : \A idx \in regionOf(getMapping(p)) :
                 getPixelColor(stripOf(L, getMapping(p).strip), idx)
                     = IF idx = getMapping(p).index
                       THEN centerColor(lastOp'.cmd.action)
                       ELSE COLOR_OFF]_vars

\* SHOW A #1 executed after SUCCESS A #3 had expanded and was reported done:
\* of the eleven pixels that were green only the center is lit, in blue
C30_Witness ==
    /\ lastOp.op = "executeCommand"
    /\ lastOp.cmd.action = "SHOW"
    /\ lastEnqueued(1) = queueAck(S_SHOW, "A", 1)
    /\ lastEnqueued(2).type = "DONE"
    /\ lastEnqueued(2).commandId = 3
    /\ m_positions[0].state = "SHOWN"
    /\ getPixelColor(m_strip1, getMapping(0).index) = COLOR_SHOW
    /\ \A idx \in regionOf(getMapping(0)) \ {getMapping(0).index} :
           getPixelColor(m_strip1, idx) = COLOR_OFF

(***************************************************************************)
(* SpecFraming: loop() with the host's lines ending in one terminator or   *)
(* in a run of them, empty lines, a line in two pieces and a line longer   *)
(* than the line buffer that arrives whole.                                *)
(***************************************************************************)
\* what Serial has available at a call of pollSerial: "PING #1" and CR LF, a
\* bare LF, the run CR LF CR, 10 or 120 bytes from the middle of a line, and
\* a line of 70 bytes with its LF
FramingChunks ==
    {<<"P","I","N","G"," ","#","1","\r","\n">>, <<"\n">>, <<"\r","\n","\r">>,
     filler(10), filler(120), filler(70) \o <<"\n">>}

InitFraming == InitWith({TRUE}) /\ \A i \in Sensors : m_sensors[i].active

NextFraming ==
    \/ \E bytes \in FramingChunks : PollSerial(bytes, MaxLinesFraming, MaxLenFraming)
    \/ PollNothing
    \/ ProcessCompletedLines(TRUE)
    \/ CommandTick
    \/ TouchTick(NoTouch)
    \/ LedTick
    \/ LoopFlush

SpecFraming == InitFraming /\ [][NextFraming]_vars

\* the place of the first CR or LF among bytes, 0 if there is none
firstTerminator(bytes) ==
    IF hasTerminator(bytes)
    THEN CHOOSE k \in DOMAIN bytes :
             /\ isTerminator(bytes[k])
             /\ \A j \in 1..(k - 1) : ~isTerminator(bytes[j])
    ELSE 0

\* the bytes before the first CR or LF
content(bytes) == SubSeq(bytes, 1, firstTerminator(bytes) - 1)

\* what is left of bytes once the first CR or LF and every CR and LF that
\* follows it immediately are taken away
afterTerminators(bytes) ==
    LET rest == SubSeq(bytes, firstTerminator(bytes) + 1, Len(bytes))
        text == {k \in DOMAIN rest : ~isTerminator(rest[k])}
    IN  IF text = {} THEN << >>
        ELSE SubSeq(rest, CHOOSE k \in text : \A j \in text : k <= j, Len(rest))

\* extractLine takes the first terminator of the buffer and the run of CR and
\* LF after it, and nothing else; processCompletedLines, given a buffer of
\* one line and its terminators, empties it and executes one command at most
\* and queues one event at most, none if the line is empty
terminatorsCollapse ==
    /\ [](pc = "lines" =>
            \A rx \in {RX} : \A r \in {extractLine(rx, m_lineBuffer)} :
                hasTerminator(stored(rx)) =>
                    /\ r.found
                    /\ r.rx.head = rx.head
                    /\ r.rx.buffer = rx.buffer
                    /\ stored(r.rx) = afterTerminators(stored(rx)))
    /\ [][( /\ lastOp'.op = "processCompletedLines"
            /\ hasTerminator(stored(RX))
            /\ afterTerminators(stored(RX)) = << >> )
          => /\ stored(RX)' = << >>
             /\ lastOp'.arg <= 1
             /\ Len(offered') <= 1
             /\ content(stored(RX)) = << >> => offered' = << >>
             /\ content(stored(RX)) = <<"P","I","N","G"," ","#","1">>
                    => offered' = <<queueAck(S_PING, "", 1)>>]_vars

\* C31 (as the specification has it): when the ring buffer holds a terminator
\* extractLine returns exactly the bytes before the first CR or LF, consumes
\* that terminator and every CR and LF that follows it immediately, and a run
\* of CR and LF gives one line and no event for the empty remainder.
C31_LineContent ==
    /\ [](pc = "lines" =>
            \A r \in {extractLine(RX, m_lineBuffer)} :
                hasTerminator(stored(RX)) => r.line = content(stored(RX)))
    /\ terminatorsCollapse

\* C31: when the ring buffer holds a terminator extractLine consumes the bytes
\* before the first CR or LF, that terminator and every CR and LF that follows
\* it immediately.  It returns exactly the bytes before the terminator if
\* they are fewer than MAX_LINE_LEN; of MAX_LINE_LEN bytes or more it returns
\* the first 63 with m_lineOverflow set, and the line is answered by one ERR
\* line_too_long.  A run of CR and LF gives one line and no command or event
\* for the empty remainder.
C31_LineExtracted ==
    /\ [](pc = "lines" =>
            \A r \in {extractLine(RX, m_lineBuffer)} :
                hasTerminator(stored(RX)) =>
                    IF Len(content(stored(RX))) < MAX_LINE_LEN
                    THEN /\ r.line = content(stored(RX))
                         /\ ~r.overflow
                    ELSE /\ r.line = SubSeq(content(stored(RX)), 1, MAX_LINE_LEN - 1)
                         /\ r.overflow)
    /\ [][( /\ lastOp'.op = "processCompletedLines"
            /\ hasTerminator(stored(RX))
            /\ afterTerminators(stored(RX)) = << >>
            /\ Len(content(stored(RX))) >= MAX_LINE_LEN )
          => offered' = <<queueError(S_line_too_long, NO_COMMAND_ID)>>]_vars
    /\ terminatorsCollapse

\* "PING #1" was read with CR LF behind 10 bytes of an earlier line and the
\* run CR LF CR: both terminators were consumed and the one line answered by
\* ACK PING
C31_Witness ==
    /\ lastOp.op = "processCompletedLines"
    /\ hostLine = <<"P","I","N","G"," ","#","1">>
    /\ offered = <<queueAck(S_PING, "", 1)>>
    /\ m_rxHead = m_rxTail
    /\ m_rxHead = 22

(***************************************************************************)
(* SpecExpand: the push of the pixel buffers to the strips                 *)
(***************************************************************************)
\* the commands whose LedController operation writes pixels
LedActions == {"SHOW", "HIDE", "BLINK", "STOP_BLINK", "SUCCESS", "SEQUENCE_COMPLETED"}

\* a step in which update advances an expansion, toggles a blinking
\* position or advances or ends the celebration
animationWrites ==
    \/ m_positions' # m_positions
    \/ m_sequenceAnimStep' # m_sequenceAnimStep
    \/ m_sequenceAnimActive' # m_sequenceAnimActive

\* C32: an LED tick shows the strips once or not at all and leaves
\* m_needsUpdate clear.  It shows them exactly if a pixel was written since
\* the tick before, that is if m_needsUpdate was set by a command's LED
\* operation or update itself advanced an animation; a tick that shows
\* nothing has left the pixel buffers as they were.  Between two ticks the
\* flag is set by the execution of an LED command and by nothing else, is
\* set whenever the pixel buffers change, and stays set until the tick.
C32_PushOncePerTick ==
    /\ [](lastOp.op = "ledTick" => lastOp.arg \in {0, 1} /\ ~m_needsUpdate)
    /\ [][lastOp'.op = "ledTick" =>
            /\ lastOp'.arg = 1 <=> (m_needsUpdate \/ animationWrites)
            /\ lastOp'.arg = 0 => UNCHANGED <<m_strip1, m_strip2>>]_vars
    /\ [][lastOp'.op # "ledTick" =>
            /\ <<m_strip1, m_strip2>>' # <<m_strip1, m_strip2>> => m_needsUpdate'
            /\ m_needsUpdate => m_needsUpdate'
            /\ (m_needsUpdate' /\ ~m_needsUpdate)
                   => /\ lastOp'.op = "executeCommand"
                      /\ lastOp'.cmd.action \in LedActions]_vars

\* the LED tick that takes the second step of an expansion has shown the
\* strips
C32_Witness ==
    /\ lastOp.op = "ledTick"
    /\ lastOp.arg = 1
    /\ m_positions[0].state = "ANIMATING"
    /\ m_positions[0].animationStep = 2
    /\ ~m_needsUpdate
    /\ getPixelColor(m_strip1, getMapping(0).index + 2) = COLOR_SUCCESS

(***************************************************************************)
(* SpecBlink: loop() with the host sending BLINK, STOP_BLINK, SHOW, HIDE   *)
(* and SUCCESS for the position A, and LED ticks before and after a blink  *)
(* interval has passed.                                                    *)
(***************************************************************************)
BlinkLines ==
    {Command("BLINK", 0, TRUE, 4), Command("STOP_BLINK", 0, TRUE, 6),
     Command("SHOW", 0, TRUE, 1), Command("HIDE", 0, TRUE, 2),
     Command("SUCCESS", 0, TRUE, 3)}

BlinkTimeSteps == {75, 150}

InitBlink == InitWith({TRUE}) /\ \A i \in Sensors : m_sensors[i].active

NextBlink ==
    \/ \E cmd \in BlinkLines :
           lines < MaxLinesBlink /\ ExecuteCommand(cmd, TRUE)
    \/ CommandTick
    \/ TouchTick(NoTouch)
    \/ LedTick
    \/ LoopFlush
    \/ \E d \in BlinkTimeSteps : Advance(d, SETUP_DELAY_MS + MaxTimeBlink)

SpecBlink == InitBlink /\ [][NextBlink]_vars

\* the pixel of the position p
centerOf(p) ==
    getPixelColor(stripOf(LED, getMapping(p).strip), getMapping(p).index)

\* an LED tick on p BLINKING: if BLINK_INTERVAL_MS have passed since the last
\* toggle the flag is inverted once, the pixel follows it and the interval
\* starts again; if they have not, nothing of p changes
blinkToggles(p) ==
    /\ m_positions'[p].state = "BLINKING"
    /\ IF now - m_positions[p].lastAnimationTime >= BLINK_INTERVAL_MS
       THEN /\ m_positions'[p].blinkOn = ~m_positions[p].blinkOn
            /\ m_positions'[p].lastAnimationTime = now
            /\ centerOf(p)' = IF m_positions'[p].blinkOn THEN COLOR_BLINK
                              ELSE COLOR_OFF
       ELSE /\ m_positions'[p] = m_positions[p]
            /\ centerOf(p)' = centerOf(p)

\* STOP_BLINK for p: ACK; p BLINKING becomes OFF with its pixel off, any
\* other p keeps its data and both strips their pixels
blinkStops(p) ==
    ExecutesOn({"STOP_BLINK"}, p)
        => /\ offered' = <<queueAck(S_STOP_BLINK, lastOp'.cmd.position,
                                    lastOp'.cmd.id)>>
           /\ IF m_positions[p].state = "BLINKING"
              THEN /\ m_positions'[p].state = "OFF"
                   /\ ~m_positions'[p].blinkOn
                   /\ centerOf(p)' = COLOR_OFF
              ELSE UNCHANGED <<m_positions, m_strip1, m_strip2>>

DrainLines(n) ==
    IF n = 0
    THEN {Command("RECALIBRATE_ALL", 255, TRUE, 3), Command("SCAN", 255, TRUE, 5)}
    ELSE {Command("PING", 255, TRUE, 1)}

InitDrain == InitWith({TRUE}) /\ \A i \in Sensors : m_sensors[i].active

NextDrain ==
    \/ \E cmd \in DrainLines(lines) :
           lines < MaxLinesDrain /\ ExecuteCommand(cmd, TRUE)
    \/ CommandTick
    \/ TouchTick(NoTouch)
    \/ LedTick
    \/ LoopFlush

SpecDrain == InitDrain /\ [][NextDrain]_vars

FairDrain ==
    /\ SpecDrain
    /\ WF_vars(CommandTick)
    /\ WF_vars(TouchTick(NoTouch))
    /\ WF_vars(LedTick)
    /\ WF_vars(LoopFlush)

\* the slot k holds an event that enqueue accepted and flush has not popped
queuedAt(k) == (k + EVENT_QUEUE_SIZE - m_tail) % EVENT_QUEUE_SIZE < m_count

\* C34: an event leaves the queue only in flush, which writes it to the
\* transport; a flush of the loop writes the three oldest events, or all if
\* there are fewer, and keeps the others; with loop() running for ever no
\* slot holds an event for ever, so that every event that was accepted does
\* leave the queue, and the queue is empty again and again, the commands
\* producing events only while they run.
C34_EventsDrain ==
    /\ [][\A k \in 0..(EVENT_QUEUE_SIZE - 1) :
            (queuedAt(k) /\ ~queuedAt(k)')
                => /\ lastOp'.op = "flush"
                   /\ \E j \in DOMAIN serialOut' :
                          serialOut'[j] = sendEvent(m_queue[k])]_vars
    /\ [][lastOp'.op = "flush"
            => /\ serialOut' = SubSeq(queued(EQ), 1, Min(m_count, LOOP_FLUSH))
               /\ queued(EQ)' = SubSeq(queued(EQ), Min(m_count, LOOP_FLUSH) + 1,
                                       m_count)]_vars
    /\ \A k \in 0..(EVENT_QUEUE_SIZE - 1) : []<>~queuedAt(k)
    /\ []<>isEmpty(EQ)

\* the host has sent its 17 lines; of the 18 events they gave rise to the
\* full queue rejected one, and the 17 it accepted, lying across the end of
\* its array, have all been written
C34_Witness ==
    /\ lastOp.op = "flush"
    /\ serialOut # << >>
    /\ isEmpty(EQ)
    /\ lines = MaxLinesDrain
    /\ m_head = (SetupFlush.q.head + 17) % EVENT_QUEUE_SIZE
    /\ \A k \in DOMAIN m_commandQueue : ~m_commandQueue[k].active

(***************************************************************************)
(* SpecLost: loop() with the host sending one long-running command, SCAN,  *)
(* RECALIBRATE_ALL or SUCCESS for A, and then PING after PING, up to 16 in *)
(* one iteration of loop(), so that the event queue may be full when the   *)
(* command completes.                                                      *)
(***************************************************************************)
\* the line the host sends after n others
LostLines(n) ==
    IF n = 0
    THEN {Command("SCAN", 255, TRUE, 5), Command("RECALIBRATE_ALL", 255, TRUE, 3),
          Command("SUCCESS", 0, TRUE, 4)}
    ELSE {Command("PING", 255, TRUE, 1)}

LostTimeSteps == {150}

InitLost == InitWith({TRUE}) /\ \A i \in Sensors : m_sensors[i].active

NextLost ==
    \/ \E cmd \in LostLines(lines) :
           lines < MaxLinesLost /\ ExecuteCommand(cmd, TRUE)
    \/ CommandTick
    \/ TouchTick(NoTouch)
    \/ LedTick
    \/ LoopFlush
    \/ \E d \in LostTimeSteps : Advance(d, SETUP_DELAY_MS + MaxTimeLost)

SpecLost == InitLost /\ [][NextLost]_vars

\* the type of the event tickCommand queues when the command completes
completionType(cmd) ==
    CASE cmd.action = "SCAN" -> "SCANNED"
      [] cmd.action = "RECALIBRATE_ALL" -> "RECALIBRATED"
      [] OTHER -> "DONE"

\* the condition on which tickCommand completes the command of slot qc
completes(qc) ==
    CASE qc.command.action = "SCAN" -> TRUE
      [] qc.command.action = "RECALIBRATE_ALL" ->
             qc.scanAddress + SENSORS_PER_TICK >= NUM_TOUCH_SENSORS
      [] qc.command.action = "SUCCESS" ->
             m_positions[qc.command.positionIndex].state = "EXPANDED"
      [] OTHER -> FALSE

\* the completion events with the id of cmd among events
completionsOf(events, cmd) ==
    {j \in DOMAIN events : /\ events[j].type = completionType(cmd)
                           /\ events[j].commandId = cmd.id}

\* C35: the dispatcher's tick that finds a command's completion condition met
\* hands the completion event to the queue once and frees the slot, whether
\* or not the queue takes it: a full queue is left as it was, the event is
\* lost.  A tick that finds the condition not met keeps the slot and queues
\* nothing.  The completion event is handed to the queue in no other step,
\* so that a lost one is never queued again.
C35_FreedWithoutEvent ==
    [][/\ lastOp'.op = "tick" =>
            \A k \in 0..(COMMAND_QUEUE_SIZE - 1) :
                m_commandQueue[k].active =>
                    IF completes(m_commandQueue[k])
                    THEN /\ ~m_commandQueue'[k].active
                         /\ Cardinality(completionsOf(offered',
                                m_commandQueue[k].command)) = 1
                         /\ isFull(EQ) => EQ' = EQ
                         /\ ~isFull(EQ) =>
                                /\ m_count' = m_count + 1
                                /\ m_queue'[m_head] = offered'[1]
                    ELSE /\ m_commandQueue'[k].active
                         /\ offered' = << >>
       /\ \A cmd \in LostLines(0) :
             completionsOf(offered', cmd) # {}
                 => /\ lastOp'.op = "tick"
                    /\ \E k \in 0..(COMMAND_QUEUE_SIZE - 1) :
                           /\ m_commandQueue[k].active
                           /\ m_commandQueue[k].command = cmd
                           /\ ~m_commandQueue'[k].active]_vars

\* SUCCESS A #4 has completed in a tick that found the queue full of the
\* answers to 16 PING: the slot is free and no DONE is queued
C35_Witness ==
    /\ lastOp.op = "tick"
    /\ Len(offered) = 1
    /\ offered[1].type = "DONE"
    /\ isFull(EQ)
    /\ \A k \in 0..(EVENT_QUEUE_SIZE - 1) : m_queue[k].type # "DONE"
    /\ \A k \in 0..(COMMAND_QUEUE_SIZE - 1) : ~m_commandQueue[k].active

(***************************************************************************)
(* SpecUnheard: loop() with a finger on and off the sensor A, the host     *)
(* sending EXPECT_DOWN or EXPECT_UP for A and then PING after PING, up to  *)
(* 16 in one iteration of loop(), so that the event queue may be full when *)
(* the touch is debounced.                                                 *)
(***************************************************************************)
\* the line the host sends after n others
UnheardLines(n) ==
    IF n = 0
    THEN {Command("EXPECT_DOWN", 0, TRUE, 6), Command("EXPECT_UP", 0, TRUE, 7)}
    ELSE {Command("PING", 255, TRUE, 1)}

UnheardTimeSteps == {50}

InitUnheard == InitWith({TRUE}) /\ \A i \in Sensors : m_sensors[i].active

NextUnheard ==
    \/ \E cmd \in UnheardLines(lines) :
           lines < MaxLinesUnheard /\ ExecuteCommand(cmd, TRUE)
    \/ CommandTick
    \/ \E reading \in TouchReadings : TouchTick(reading)
    \/ LedTick
    \/ LoopFlush
    \/ \E d \in UnheardTimeSteps : Advance(d, SETUP_DELAY_MS + MaxTimeUnheard)

SpecUnheard == InitUnheard /\ [][NextUnheard]_vars

\* the fulfilment events for the position of sensor i among events
fulfilments(events, i) ==
    {j \in DOMAIN events : /\ events[j].type \in {"TOUCHED_DOWN", "TOUCHED_UP"}
                           /\ events[j].position = indexToLetter(i)}

\* the expectation of sensor i that a debounced change to touched matches
matching(i, touched) == IF touched THEN m_expectDown[i] ELSE m_expectUp[i]

\* the same expectation after the step
matchingAfter(i, touched) == IF touched THEN m_expectDown'[i] ELSE m_expectUp'[i]

\* C36: a touch tick in which the reported state of a sensor changes while
\* the expectation for the new state is armed disarms the expectation,
\* updates the reported state and hands one TOUCHED_DOWN or TOUCHED_UP with
\* the expectation's id to the queue; a full queue is left as it was, the
\* event is lost.  A fulfilment event is handed to the queue only in the step
\* that disarms its expectation, so that a lost one is never queued again.
C36_FulfilmentLost ==
    [][\A i \in Sensors :
          /\ ( /\ lastOp'.op = "touchTick"
               /\ m_sensors'[i].lastReportedTouched # m_sensors[i].lastReportedTouched
               /\ matching(i, m_sensors'[i].lastReportedTouched).active )
                  => /\ ~matchingAfter(i, m_sensors'[i].lastReportedTouched).active
                     /\ m_sensors'[i].debouncedTouched
                            = m_sensors'[i].lastReportedTouched
                     /\ \E j \in fulfilments(offered', i) :
                            /\ fulfilments(offered', i) = {j}
                            /\ offered'[j].type =
                                   IF m_sensors'[i].lastReportedTouched
                                   THEN "TOUCHED_DOWN" ELSE "TOUCHED_UP"
                            /\ offered'[j].commandId =
                                   matching(i, m_sensors'[i].lastReportedTouched).commandId
                     /\ isFull(EQ) => EQ' = EQ
          /\ fulfilments(offered', i) # {}
                  => /\ lastOp'.op = "touchTick"
                     /\ matching(i, m_sensors'[i].lastReportedTouched).active
                     /\ ~matchingAfter(i, m_sensors'[i].lastReportedTouched).active
                     /\ m_sensors'[i].lastReportedTouched
                            # m_sensors[i].lastReportedTouched]_vars

\* the press of A that EXPECT_DOWN A #6 waited for was debounced with the
\* queue full of the answers to 16 PING: the expectation is disarmed, the
\* press reported, and no TOUCHED_DOWN is queued
C36_Witness ==
    /\ lastOp.op = "touchTick"
    /\ Len(offered) = 1
    /\ offered[1].type = "TOUCHED_DOWN"
    /\ offered[1].commandId = 6
    /\ isFull(EQ)
    /\ \A k \in 0..(EVENT_QUEUE_SIZE - 1) : m_queue[k].type # "TOUCHED_DOWN"
    /\ ~m_expectDown[0].active
    /\ m_sensors[0].lastReportedTouched

(***************************************************************************)
(* SpecTouch: an expectation armed on a sensor that is in the expected     *)
(* state already                                                           *)
(***************************************************************************)
\* the step disarms the expectation expect of sensor i
disarms(expect, i) == expect[i].active /\ ~expect'[i].active

\* the events of the given type for sensor i with the id among events
answers(events, type, i, id) ==
    {j \in DOMAIN events : /\ events[j].type = type
                           /\ events[j].position = indexToLetter(i)
                           /\ events[j].commandId = id}

\* C37: an expectation is disarmed only by the touch tick in which the
\* sensor's debounced state changes to the expected one, which queues the
\* fulfilment with its id.  EXPECT_DOWN executed while the sensor is touched
\* is acknowledged and arms the expectation, and a touch tick that finds the
\* sensor touched leaves it armed and queues no TOUCHED_DOWN: the
\* expectation waits for the release and the next press.  The same holds
\* for EXPECT_UP and a sensor that is released.
C37_WaitsForNextTransition ==
    [][\A i \in Sensors :
          /\ disarms(m_expectDown, i)
                => /\ lastOp'.op = "touchTick"
                   /\ ~m_sensors[i].debouncedTouched
                   /\ m_sensors'[i].debouncedTouched
                   /\ answers(offered', "TOUCHED_DOWN", i, m_expectDown[i].commandId) # {}
          /\ disarms(m_expectUp, i)
                => /\ lastOp'.op = "touchTick"
                   /\ m_sensors[i].debouncedTouched
                   /\ ~m_sensors'[i].debouncedTouched
                   /\ answers(offered', "TOUCHED_UP", i, m_expectUp[i].commandId) # {}
          /\ (lastOp'.op = "touchTick" /\ m_sensors[i].debouncedTouched)
                => /\ m_expectDown'[i] = m_expectDown[i]
                   /\ \A j \in DOMAIN offered' :
                          offered'[j].position = indexToLetter(i)
                              => offered'[j].type \in {"TOUCH_UP", "TOUCHED_UP"}
          /\ (lastOp'.op = "touchTick" /\ ~m_sensors[i].debouncedTouched)
                => /\ m_expectUp'[i] = m_expectUp[i]
                   /\ \A j \in DOMAIN offered' :
                          offered'[j].position = indexToLetter(i)
                              => offered'[j].type \in {"TOUCH_DOWN", "TOUCHED_DOWN"}
          /\ ExecutesOn({"EXPECT_DOWN"}, i)
                => /\ m_expectDown'[i] = [active |-> TRUE, commandId |-> lastOp'.cmd.id]
                   /\ offered' = <<queueAck(S_EXPECT_DOWN, indexToLetter(i),
                                            lastOp'.cmd.id)>>
          /\ ExecutesOn({"EXPECT_UP"}, i)
                => /\ m_expectUp'[i] = [active |-> TRUE, commandId |-> lastOp'.cmd.id]
                   /\ offered' = <<queueAck(S_EXPECT_UP, indexToLetter(i),
                                            lastOp'.cmd.id)>>]_vars

\* A was pressed, EXPECT_DOWN A #6 was sent while it was held, A was
\* released and pressed again: the events queued are TOUCH_DOWN, the ACK,
\* TOUCH_UP and, for the second press, TOUCHED_DOWN #6
C37_Witness ==
    /\ lastOp.op = "touchTick"
    /\ m_queue[SetupFlush.q.head].type = "TOUCH_DOWN"
    /\ m_queue[SetupFlush.q.head + 1].type = "ACK"
    /\ m_queue[SetupFlush.q.head + 1].action = S_EXPECT_DOWN
    /\ m_queue[SetupFlush.q.head + 2].type = "TOUCH_UP"
    /\ m_queue[SetupFlush.q.head + 3].type = "TOUCHED_DOWN"
    /\ m_queue[SetupFlush.q.head + 3].commandId = 6
    /\ offered = <<queueTouchedDown("A", 6)>>
    /\ ~m_expectDown[0].active

(***************************************************************************)
(* SpecTouch: debounced and reported state, and the order of the events    *)
(***************************************************************************)
\* C38: every sensor starts released, with debounced and reported state
\* false, and the two are equal in every state.  A step hands the queue a
\* touch event for a sensor exactly if it changes the sensor's reported
\* state, one event then, a down event (TOUCH_DOWN, TOUCHED_DOWN) if the new
\* state is touched and an up event (TOUCH_UP, TOUCHED_UP) if it is released:
\* the events of a sensor alternate between down and up, the first being a
\* down event.
C38_StatesAgreeEventsAlternate ==
    /\ \A i \in Sensors : /\ ~m_sensors[i].debouncedTouched
                           /\ ~m_sensors[i].lastReportedTouched
    /\ [](\A i \in Sensors :
              m_sensors[i].debouncedTouched = m_sensors[i].lastReportedTouched)
    /\ [][\A i \in Sensors :
            IF m_sensors'[i].lastReportedTouched # m_sensors[i].lastReportedTouched
            THEN \E k \in touchEvents(offered', i) :
                    /\ touchEvents(offered', i) = {k}
                    /\ offered'[k].type \in
                           IF m_sensors'[i].lastReportedTouched
                           THEN {"TOUCH_DOWN", "TOUCHED_DOWN"}
                           ELSE {"TOUCH_UP", "TOUCHED_UP"}
            ELSE touchEvents(offered', i) = {}]_vars

\* A was pressed, released and pressed again: TOUCH_DOWN, TOUCH_UP and
\* TOUCH_DOWN were queued, in this order
C38_Witness ==
    /\ lastOp.op = "touchTick"
    /\ offered = <<queueTouchDown("A")>>
    /\ m_queue[SetupFlush.q.head].type = "TOUCH_DOWN"
    /\ m_queue[SetupFlush.q.head + 1].type = "TOUCH_UP"
    /\ m_queue[SetupFlush.q.head + 2].type = "TOUCH_DOWN"
    /\ m_sensors[0].debouncedTouched
    /\ m_sensors[0].lastReportedTouched

(***************************************************************************)
(* SpecEQ: the cursors and the count of the queue                          *)
(***************************************************************************)
\* the slots from m_tail up to m_head, m_count of them
occupied ==
    {(m_tail + k) % EVENT_QUEUE_SIZE : k \in 0..(m_count - 1)}

\* C39: the count is between 0 and EVENT_QUEUE_SIZE, head and tail are
\* indices of the array, and head is count slots after tail, around the end
\* of the array.  The slots from tail up to head are the ones that hold a
\* valid event, and they hold the events enqueue accepted and flush has not
\* written, oldest first.
C39_RingInvariant ==
    /\ m_count \in 0..EVENT_QUEUE_SIZE
    /\ m_head \in 0..(EVENT_QUEUE_SIZE - 1)
    /\ m_tail \in 0..(EVENT_QUEUE_SIZE - 1)
    /\ m_head = (m_tail + m_count) % EVENT_QUEUE_SIZE
    /\ Cardinality(occupied) = m_count
    /\ \A k \in 0..(EVENT_QUEUE_SIZE - 1) : m_queue[k].valid <=> k \in occupied
    /\ queued(EQ) = Pending

\* the queue is full, its 16 events lying across the end of the array from
\* the slot 3 to the slot 2
C39_Witness ==
    /\ lastOp.op = "enqueue"
    /\ lastOp.arg = 1
    /\ m_count = EVENT_QUEUE_SIZE
    /\ m_head = m_tail
    /\ m_tail = 3
    /\ Len(Pending) = EVENT_QUEUE_SIZE

(***************************************************************************)
(* SpecFraming: the cursors of the ring buffer and the line index          *)
(***************************************************************************)
\* C40: the cursors of the ring buffer are indices of its 128 bytes, and the
\* buffer keeps its 128 bytes; pollSerial stores what it reads up to 127
\* pending bytes and no more, so that the write cursor never reaches the read
\* cursor from behind; extractLine returns with the line index at 63 at most
\* and at most 63 bytes of text in the 64 bytes of the line buffer, and
\* moves the read cursor over pending bytes only.
C40_CursorsInBounds ==
    /\ [](/\ m_rxHead \in 0..(RX_BUFFER_SIZE - 1)
          /\ m_rxTail \in 0..(RX_BUFFER_SIZE - 1)
          /\ DOMAIN m_rxBuffer = 0..(RX_BUFFER_SIZE - 1)
          /\ Len(stored(RX)) <= RX_BUFFER_SIZE - 1
          /\ m_lineIndex \in 0..(MAX_LINE_LEN - 1)
          /\ Len(m_lineBuffer) <= MAX_LINE_LEN - 1)
    /\ [](pc = "lines" =>
            \A r \in {extractLine(RX, m_lineBuffer)} :
                /\ r.index \in 0..(MAX_LINE_LEN - 1)
                /\ Len(r.line) <= MAX_LINE_LEN - 1
                /\ r.rx.tail \in 0..(RX_BUFFER_SIZE - 1)
                /\ Len(stored(r.rx)) <= Len(stored(RX))
                /\ r.rx.head = m_rxHead)
    /\ [][lastOp'.op = "pollSerial" =>
            /\ Len(stored(RX)') =
                   Min(RX_BUFFER_SIZE - 1, Len(stored(RX)) + lastOp'.arg)
            /\ m_rxTail' = m_rxTail]_vars
    /\ [][lastOp'.op = "processCompletedLines" =>
            /\ Len(stored(RX)') <= Len(stored(RX))
            /\ m_rxHead' = m_rxHead]_vars

\* the host sent 120 bytes and then 70 more with a line feed: 64 of the
\* first 120 were discarded, the 71 filled the buffer to its 127 bytes, and
\* extractLine took all of them as one line, kept 63 in the line buffer and
\* left both cursors at 63, having gone around the buffer (the line index is
\* 0 again, from the call of extractLine that found the buffer empty)
C40_Witness ==
    /\ lastOp.op = "processCompletedLines"
    /\ hostSent.done
    /\ hostSent.len = 190
    /\ Len(m_lineBuffer) = MAX_LINE_LEN - 1
    /\ m_rxHead = 63
    /\ m_rxTail = 63
====
